---- MODULE Spec2Model ----
(***************************************************************************)
(* Model of the tracking-and-risk pipeline of Detect_WARN:                 *)
(*   - ObjectTracker            (vision/src/object_tracker.cpp 24..300)    *)
(*   - BehaviorAnalyzer         (vision/src/object_tracker.cpp 787..1092)  *)
(*   - VehiclePerceptionSystem  (vision/src/vehicle_perception_system.cpp) *)
(*   - ThreadPool               (main/thread_pool.hpp)                     *)
(*                                                                         *)
(* Numbers.  The code computes in float.  The model uses integers and      *)
(* exact fractions <<numerator, denominator>> (denominator > 0):           *)
(*   - pixel coordinates are integers and box widths/heights are even, so  *)
(*     x + width/2 and every difference of centers is an integer that a    *)
(*     float holds exactly;                                                *)
(*   - an IOU is the fraction intersection/union, compared by cross        *)
(*     multiplication;                                                     *)
(*   - TrackedObject.speed is held in tenths of a pixel per frame.         *)
(* Sequences are 1-based: track and detection indices are the code's       *)
(* index + 1.                                                              *)
(***************************************************************************)
EXTENDS Integers, Sequences, FiniteSets, TLC

VARIABLES
    \* ---- ObjectTracker ----
    tracks_,          \* std::vector<TrackedObject> tracks_
    next_track_id_,   \* int next_track_id_
    config_,          \* SystemConfig::TrackerConfig config_ (max_age, min_hits, iou_threshold)
    confirmed_tracks, \* value returned by the last update()
    \* ---- history of the tracker calls (observation only) ----
    lastOp,           \* the last operation that wrote the live set: initialize, reset or update
    nUpdates,         \* number of update() calls made so far
    created,          \* ids handed out since construction / reset() / initialize(), in creation order
    hist,             \* per live track id: what happened to the track in the update() calls of its life
    expired,          \* the tracks the last update() removed
    soloRun,          \* length of the run of single-object update() calls on a fresh tracker
    lastCall,         \* detections and association result of the last update()
    emptyRun,         \* length of the current run of update() calls without detections
    \* ---- BehaviorAnalyzer ----
    analyzer_config_,   \* SystemConfig::BehaviorConfig config_ of the analyzer
    vehicle_speed_kmh_, \* float vehicle_speed_kmh_
    analyze_input,      \* the track list analyze() is called with
    behaviors,          \* value returned by the last analyze()
    \* ---- VehiclePerceptionSystem and its ThreadPool ----
    state_,           \* std::atomic<SystemState> state_
    paused_,          \* std::atomic<bool> paused_
    tasks_,           \* std::queue of the pool: the frames submitted and not yet taken
    pc,               \* per worker thread: where it is in its loop / in processFrame
    local,            \* per worker thread: the locals of its processFrame call
    last_results_,    \* std::vector<BehaviorAnalysis> last_results_
    nFrames,          \* number of frames the video thread has delivered
    updateLog,        \* frames in the order their tracker update() completed
    storeLog,         \* frames in the order their results were stored in last_results_
    callbackLog,      \* frames in the order their results were given to result_callback_
    \* ---- the association step of update(), run on its own ----
    assoc_detections, \* the detection list associateDetections is called with
    iou_matrix,       \* iou_matrix of the last call: [track][detection]
    assoc_runs,       \* the results of the calls made on these inputs
    \* ---- LLMEnhancer ----
    llm_config_,      \* SystemConfig::LLMConfig config_ (enable)
    basic_analysis,   \* the list the last enhanceAnalysis() was called with
    enhanced_results, \* value returned by the last enhanceAnalysis()
    \* ---- ThreadPool on its own (its queue is tasks_) ----
    stop_,            \* std::atomic<bool> stop_
    workers_,         \* per worker thread: where it is in its loop, and the task it holds
    stop_call,        \* where the caller of stop() is: not called, joining worker k, returned
    submitted,        \* tasks submit() has queued, in order
    rejected,         \* tasks whose submit() threw
    executed,         \* per task: how many times it has run
    pendingAtStop,    \* tasks queued or running when stop() set stop_
    \* ---- VideoProcessor: opening the source ----
    video_config_,    \* SystemConfig::VideoSourceConfig config_ (the retry fields)
    video_pc,         \* where initialize() is in openVideoSourceWithRetry
    attempt,          \* int attempt
    elapsed,          \* seconds on the steady clock since start_time
    attempt_starts,   \* elapsed time at which each openVideoSource() call began
    open_result,      \* what openVideoSourceWithRetry returned: "none" yet, "true" or "false"
    \* ---- the lifecycle calls of VehiclePerceptionSystem ----
    ctl,              \* per calling thread: the call it is in, where it is, and what its guard read
    ret,              \* per calling thread: what its last call returned
    video,            \* the video processor: source opened, processing thread running
    callback_mutex_,  \* std::mutex callback_mutex_: 0 when free, else the calling thread that holds it
    nCalls            \* number of lifecycle calls made so far

trackerVars == <<tracks_, next_track_id_, config_, confirmed_tracks>>
historyVars == <<lastOp, nUpdates, created, hist, expired, soloRun, lastCall, emptyRun>>
analyzerVars == <<analyzer_config_, vehicle_speed_kmh_, analyze_input, behaviors>>
systemVars == <<state_, paused_, tasks_, pc, local, last_results_, nFrames,
                updateLog, storeLog, callbackLog>>
assocVars == <<assoc_detections, iou_matrix, assoc_runs>>
llmVars == <<llm_config_, basic_analysis, enhanced_results>>
poolVars == <<stop_, workers_, stop_call, submitted, rejected, executed, pendingAtStop>>
videoVars == <<video_config_, video_pc, attempt, elapsed, attempt_starts, open_result>>
lifeVars == <<ctl, ret, video, callback_mutex_, nCalls>>
vars == <<trackerVars, historyVars, analyzerVars, systemVars, assocVars,
          llmVars, poolVars, videoVars, lifeVars>>

----------------------------------------------------------------------------
(* Bounds of the exploration *)

MaxUpdates == 3      \* update() calls per behaviour
MaxFrames == 3       \* frames the video thread delivers per behaviour
MaxRuns == 2         \* association calls on one pair of track and detection lists
MaxTasks == 3        \* submit() calls made on the pool on its own
MaxPipeFrames == 4   \* frames tracked and analyzed one after the other
MaxMissFrames == 5   \* frames of the path with gaps
MaxCalls == 4        \* lifecycle calls made on the system per behaviour
MaxLifeFrames == 2   \* frames the video thread delivers between lifecycle calls

(* Program constants *)
TrajectoryCap == 50      \* trajectory.size() > 50
NumWorkers == 4          \* std::make_unique<ThreadPool>(4)
DefaultMaxAge == 30      \* TrackerConfig::max_age
DefaultMinHits == 3      \* TrackerConfig::min_hits

----------------------------------------------------------------------------
(* Helpers *)

Max2(a, b) == IF a >= b THEN a ELSE b
Min2(a, b) == IF a <= b THEN a ELSE b
Abs(a) == IF a >= 0 THEN a ELSE -a

\* a > b for fractions with positive denominators
RatGT(a, b) == a[1] * b[2] > b[1] * a[2]

\* cv::norm of an integer vector: the integer square root, which is the exact
\* norm for the axis-aligned vectors the boxes of the model produce
Norm(v) ==
    LET s == v[1] * v[1] + v[2] * v[2]
    IN  CHOOSE n \in 0..(Abs(v[1]) + Abs(v[2])) :
            n * n <= s /\ (n + 1) * (n + 1) > s

\* std::atan2(y, x) * 180 / CV_PI, exact for axis-aligned vectors (the only
\* ones the boxes of the model produce); other vectors get their quadrant's diagonal
Atan2Deg(y, x) ==
    IF y = 0 THEN (IF x >= 0 THEN 0 ELSE 180)
    ELSE IF x = 0 THEN (IF y > 0 THEN 90 ELSE -90)
    ELSE IF x > 0 THEN (IF y > 0 THEN 45 ELSE -45)
    ELSE (IF y > 0 THEN 135 ELSE -135)

SeqToSet(s) == {s[i] : i \in 1..Len(s)}

----------------------------------------------------------------------------
(* Data structures *)

ObjectClass == {"UNKNOWN", "PEDESTRIAN", "CYCLIST", "MOTORCYCLIST", "BICYCLE",
                "MOTORCYCLE", "TRICYCLE", "ANIMAL"}

Rect(x, y, w, h) == [x |-> x, y |-> y, width |-> w, height |-> h]

\* a Detection as the detector builds it: center = box position + half size
Detection(class, bbox) ==
    [class_id |-> class,
     bbox     |-> bbox,
     center   |-> <<bbox.x + bbox.width \div 2, bbox.y + bbox.height \div 2>>]

\* boxes the detector reports in the model: two overlapping positions of one
\* object moving to the right (IOU 3/5) and one object far away
BoxLeft == Rect(0, 0, 8, 8)
BoxMoved == Rect(2, 0, 8, 8)
BoxFar == Rect(20, 0, 8, 8)

DetLeft == Detection("PEDESTRIAN", BoxLeft)
DetMoved == Detection("PEDESTRIAN", BoxMoved)
DetFar == Detection("PEDESTRIAN", BoxFar)

\* detection lists of one frame: no detection, one detection, the two
\* overlapping boxes in either order, the left and the far box in either order
DetectionLists ==
    {<<>>, <<DetLeft>>, <<DetMoved>>, <<DetFar>>,
     <<DetLeft, DetMoved>>, <<DetMoved, DetLeft>>,
     <<DetLeft, DetFar>>, <<DetFar, DetLeft>>}

\* the values setMaxAge / setMinHits / initialize are called with
MaxAgeVals == {0, 1}
MinHitsVals == {1, 2, 3}
IouThresholdVals == {<<3, 10>>}

\* a default-constructed SystemConfig::TrackerConfig
DefaultTrackerConfig ==
    [max_age |-> DefaultMaxAge, min_hits |-> DefaultMinHits, iou_threshold |-> <<3, 10>>]

\* the tracker configurations initialize() is called with
TrackerConfigs ==
    [max_age : MaxAgeVals, min_hits : MinHitsVals, iou_threshold : IouThresholdVals]

----------------------------------------------------------------------------
(* ObjectTracker: the steps of update() as functions of the tracker state *)

\* calculateIOU dividing the intersection by the area of the first box
calculateIOU_OverFirstArea(box1, box2) ==
    LET x1 == Max2(box1.x, box2.x)
        y1 == Max2(box1.y, box2.y)
        x2 == Min2(box1.x + box1.width, box2.x + box2.width)
        y2 == Min2(box1.y + box1.height, box2.y + box2.height)
        intersection == (x2 - x1) * (y2 - y1)
        area1 == box1.width * box1.height
    IN  IF x2 <= x1 \/ y2 <= y1 THEN <<0, 1>> ELSE <<intersection, area1>>

\* calculateIOU without the test for an empty intersection
calculateIOU_NoOverlapTest(box1, box2) ==
    LET x1 == Max2(box1.x, box2.x)
        y1 == Max2(box1.y, box2.y)
        x2 == Min2(box1.x + box1.width, box2.x + box2.width)
        y2 == Min2(box1.y + box1.height, box2.y + box2.height)
        intersection == (x2 - x1) * (y2 - y1)
        area1 == box1.width * box1.height
        area2 == box2.width * box2.height
        union_area == area1 + area2 - intersection
    IN  IF union_area = 0 THEN <<0, 1>> ELSE <<intersection, union_area>>

\* calculateIOU: the fraction intersection / union, <<0, 1>> when the boxes
\* do not overlap
calculateIOU(box1, box2) ==
    LET x1 == Max2(box1.x, box2.x)
        y1 == Max2(box1.y, box2.y)
        x2 == Min2(box1.x + box1.width, box2.x + box2.width)
        y2 == Min2(box1.y + box1.height, box2.y + box2.height)
        intersection == (x2 - x1) * (y2 - y1)
        area1 == box1.width * box1.height
        area2 == box2.width * box2.height
        union_area == area1 + area2 - intersection
    IN  IF x2 <= x1 \/ y2 <= y1 THEN <<0, 1>> ELSE <<intersection, union_area>>

\* variant: a track that enters a cycle is tentative again
predictTrack_Demote(track) ==
    LET last_pos == track.trajectory[Len(track.trajectory)]
        predicted_pos == <<last_pos[1] + track.velocity[1], last_pos[2] + track.velocity[2]>>
        moved == [track.detection EXCEPT
                    !.bbox.x = predicted_pos[1] - track.detection.bbox.width \div 2,
                    !.bbox.y = predicted_pos[2] - track.detection.bbox.height \div 2,
                    !.center = predicted_pos]
    IN  [track EXCEPT
            !.detection = IF Len(track.trajectory) >= 2 THEN moved ELSE @,
            !.consecutive_misses = @ + 1,
            !.is_confirmed = FALSE]

\* variant: the prediction does not count a miss
predictTrack_NoMiss(track) ==
    LET last_pos == track.trajectory[Len(track.trajectory)]
        predicted_pos == <<last_pos[1] + track.velocity[1], last_pos[2] + track.velocity[2]>>
        moved == [track.detection EXCEPT
                    !.bbox.x = predicted_pos[1] - track.detection.bbox.width \div 2,
                    !.bbox.y = predicted_pos[2] - track.detection.bbox.height \div 2,
                    !.center = predicted_pos]
    IN  [track EXCEPT
            !.detection = IF Len(track.trajectory) >= 2 THEN moved ELSE @]

\* variant: the prediction starts from the center the track has now
predictTrack_FromCenter(track) ==
    LET last_pos == track.detection.center
        predicted_pos == <<last_pos[1] + track.velocity[1], last_pos[2] + track.velocity[2]>>
        moved == [track.detection EXCEPT
                    !.bbox.x = predicted_pos[1] - track.detection.bbox.width \div 2,
                    !.bbox.y = predicted_pos[2] - track.detection.bbox.height \div 2,
                    !.center = predicted_pos]
    IN  [track EXCEPT
            !.detection = IF Len(track.trajectory) >= 2 THEN moved ELSE @,
            !.consecutive_misses = @ + 1]

\* variant: the prediction also counts as a frame of the track's life
predictTrack_Ages(track) ==
    LET last_pos == track.trajectory[Len(track.trajectory)]
        predicted_pos == <<last_pos[1] + track.velocity[1], last_pos[2] + track.velocity[2]>>
        moved == [track.detection EXCEPT
                    !.bbox.x = predicted_pos[1] - track.detection.bbox.width \div 2,
                    !.bbox.y = predicted_pos[2] - track.detection.bbox.height \div 2,
                    !.center = predicted_pos]
    IN  [track EXCEPT
            !.detection = IF Len(track.trajectory) >= 2 THEN moved ELSE @,
            !.consecutive_misses = @ + 1,
            !.age = @ + 1]

\* predictTracks: linear prediction for tracks with >= 2 trajectory points,
\* and one more miss for every track
predictTrack(track) ==
    LET last_pos == track.trajectory[Len(track.trajectory)]
        predicted_pos == <<last_pos[1] + track.velocity[1], last_pos[2] + track.velocity[2]>>
        moved == [track.detection EXCEPT
                    !.bbox.x = predicted_pos[1] - track.detection.bbox.width \div 2,
                    !.bbox.y = predicted_pos[2] - track.detection.bbox.height \div 2,
                    !.center = predicted_pos]
    IN  [track EXCEPT
            !.detection = IF Len(track.trajectory) >= 2 THEN moved ELSE @,
            !.consecutive_misses = @ + 1]

predictTracks(trks) == [t \in 1..Len(trks) |-> predictTrack(trks[t])]

\* variant of the inner loop: the comparison is >= instead of >
RECURSIVE BestDetection_AtLeast(_, _, _, _, _, _)
BestDetection_AtLeast(track, detections, detection_matched, d, best_iou, best_detection) ==
    IF d > Len(detections) THEN best_detection
    ELSE IF d \in detection_matched
         THEN BestDetection_AtLeast(track, detections, detection_matched, d + 1, best_iou, best_detection)
    ELSE LET iou == calculateIOU(track.detection.bbox, detections[d].bbox)
         IN  IF ~RatGT(best_iou, iou)
             THEN BestDetection_AtLeast(track, detections, detection_matched, d + 1, iou, d)
             ELSE BestDetection_AtLeast(track, detections, detection_matched, d + 1, best_iou, best_detection)

\* inner loop of the greedy matching: the unmatched detection with the
\* highest IOU strictly above best_iou, 0 when there is none (the code's -1)
RECURSIVE BestDetection(_, _, _, _, _, _)
BestDetection(track, detections, detection_matched, d, best_iou, best_detection) ==
    IF d > Len(detections) THEN best_detection
    ELSE IF d \in detection_matched
         THEN BestDetection(track, detections, detection_matched, d + 1, best_iou, best_detection)
    ELSE LET iou == calculateIOU(track.detection.bbox, detections[d].bbox)
         IN  IF RatGT(iou, best_iou)
             THEN BestDetection(track, detections, detection_matched, d + 1, iou, d)
             ELSE BestDetection(track, detections, detection_matched, d + 1, best_iou, best_detection)

\* outer loop of the greedy matching: tracks in live-set order
RECURSIVE GreedyMatch(_, _, _, _, _, _)
GreedyMatch(trks, detections, iou_threshold, t, detection_matched, matches) ==
    IF t > Len(trks) THEN matches
    ELSE LET best == BestDetection(trks[t], detections, detection_matched, 1, iou_threshold, 0)
         IN  IF best # 0
             THEN GreedyMatch(trks, detections, iou_threshold, t + 1,
                              detection_matched \cup {best}, Append(matches, <<t, best>>))
             ELSE GreedyMatch(trks, detections, iou_threshold, t + 1, detection_matched, matches)

\* variant: a track may take a detection another track has taken
associateDetections_NoExclusion(trks, detections, iou_threshold) ==
    LET best == [t \in 1..Len(trks) |->
                    BestDetection(trks[t], detections, {}, 1, iou_threshold, 0)]
        matched == SelectSeq([t \in 1..Len(trks) |-> t], LAMBDA t : best[t] # 0)
        matches == [i \in 1..Len(matched) |-> <<matched[i], best[matched[i]]>>]
        detection_matched == {matches[i][2] : i \in 1..Len(matches)}
    IN  [matches |-> matches,
         unmatched_detections |->
             SelectSeq([d \in 1..Len(detections) |-> d], LAMBDA d : d \notin detection_matched)]

\* variant: every second call on the same lists scans the tracks from the
\* last to the first
associateDetections_AlternatingScan(trks, detections, iou_threshold) ==
    LET n == Len(trks)
        backwards == Len(assoc_runs) % 2 = 1
        scanned == IF backwards THEN [t \in 1..n |-> trks[n + 1 - t]] ELSE trks
        found == IF n = 0 THEN <<>>
                 ELSE GreedyMatch(scanned, detections, iou_threshold, 1, {}, <<>>)
        matches == [i \in 1..Len(found) |->
                       <<IF backwards THEN n + 1 - found[i][1] ELSE found[i][1], found[i][2]>>]
        detection_matched == {matches[i][2] : i \in 1..Len(matches)}
    IN  [matches |-> matches,
         unmatched_detections |->
             SelectSeq([d \in 1..Len(detections) |-> d], LAMBDA d : d \notin detection_matched)]

\* associateDetections: <<track index, detection index>> pairs and the
\* indices of the unmatched detections, in detection order
associateDetections(trks, detections, iou_threshold) ==
    LET all == [d \in 1..Len(detections) |-> d]
        matches == IF Len(trks) = 0 THEN <<>>
                   ELSE GreedyMatch(trks, detections, iou_threshold, 1, {}, <<>>)
        detection_matched == {matches[i][2] : i \in 1..Len(matches)}
    IN  [matches |-> matches,
         unmatched_detections |-> SelectSeq(all, LAMBDA d : d \notin detection_matched)]

\* variant: on overflow the newest point is dropped instead of the oldest
matchedTrack_EvictsNewest(track, detection, timestamp) ==
    LET pushed == Append(track.trajectory, detection.center)
        trajectory == IF Len(pushed) > TrajectoryCap
                      THEN SubSeq(pushed, 1, TrajectoryCap) ELSE pushed
        n == Len(trajectory)
        new_velocity == <<trajectory[n][1] - trajectory[n - 1][1],
                          trajectory[n][2] - trajectory[n - 1][2]>>
        moving == n >= 2
        speed == IF moving THEN 10 * Norm(new_velocity) ELSE track.speed
    IN  [track EXCEPT
            !.detection = detection,
            !.last_updated = timestamp,
            !.consecutive_misses = 0,
            !.age = @ + 1,
            !.trajectory = trajectory,
            !.acceleration = IF moving
                             THEN <<new_velocity[1] - track.velocity[1],
                                    new_velocity[2] - track.velocity[2]>>
                             ELSE @,
            !.velocity = IF moving THEN new_velocity ELSE @,
            !.speed = speed,
            !.direction = IF moving /\ speed > 1
                          THEN Atan2Deg(new_velocity[2], new_velocity[1]) ELSE @]

\* variant: the velocity is measured from the predicted center
matchedTrack_FromPredicted(track, detection, timestamp) ==
    LET pushed == Append(track.trajectory, detection.center)
        trajectory == IF Len(pushed) > TrajectoryCap THEN Tail(pushed) ELSE pushed
        n == Len(trajectory)
        new_velocity == <<detection.center[1] - track.detection.center[1],
                          detection.center[2] - track.detection.center[2]>>
        moving == n >= 2
        speed == IF moving THEN 10 * Norm(new_velocity) ELSE track.speed
    IN  [track EXCEPT
            !.detection = detection,
            !.last_updated = timestamp,
            !.consecutive_misses = 0,
            !.age = @ + 1,
            !.trajectory = trajectory,
            !.acceleration = IF moving
                             THEN <<new_velocity[1] - track.velocity[1],
                                    new_velocity[2] - track.velocity[2]>>
                             ELSE @,
            !.velocity = IF moving THEN new_velocity ELSE @,
            !.speed = speed,
            !.direction = IF moving /\ speed > 1
                          THEN Atan2Deg(new_velocity[2], new_velocity[1]) ELSE @]

\* variant: the direction is recomputed at every match
matchedTrack_DirectionAlways(track, detection, timestamp) ==
    LET pushed == Append(track.trajectory, detection.center)
        trajectory == IF Len(pushed) > TrajectoryCap THEN Tail(pushed) ELSE pushed
        n == Len(trajectory)
        new_velocity == <<trajectory[n][1] - trajectory[n - 1][1],
                          trajectory[n][2] - trajectory[n - 1][2]>>
        moving == n >= 2
        speed == IF moving THEN 10 * Norm(new_velocity) ELSE track.speed
    IN  [track EXCEPT
            !.detection = detection,
            !.last_updated = timestamp,
            !.consecutive_misses = 0,
            !.age = @ + 1,
            !.trajectory = trajectory,
            !.acceleration = IF moving
                             THEN <<new_velocity[1] - track.velocity[1],
                                    new_velocity[2] - track.velocity[2]>>
                             ELSE @,
            !.velocity = IF moving THEN new_velocity ELSE @,
            !.speed = speed,
            !.direction = IF moving
                          THEN Atan2Deg(new_velocity[2], new_velocity[1]) ELSE @]

\* body of the loop of updateMatchedTracks for one matched track, up to the
\* confirmation: detection, counters, trajectory, velocity, direction
matchedTrack(track, detection, timestamp) ==
    LET pushed == Append(track.trajectory, detection.center)
        trajectory == IF Len(pushed) > TrajectoryCap THEN Tail(pushed) ELSE pushed
        n == Len(trajectory)
        new_velocity == <<trajectory[n][1] - trajectory[n - 1][1],
                          trajectory[n][2] - trajectory[n - 1][2]>>
        moving == n >= 2
        speed == IF moving THEN 10 * Norm(new_velocity) ELSE track.speed
    IN  [track EXCEPT
            !.detection = detection,
            !.last_updated = timestamp,
            !.consecutive_misses = 0,
            !.age = @ + 1,
            !.trajectory = trajectory,
            !.acceleration = IF moving
                             THEN <<new_velocity[1] - track.velocity[1],
                                    new_velocity[2] - track.velocity[2]>>
                             ELSE @,
            !.velocity = IF moving THEN new_velocity ELSE @,
            !.speed = speed,
            !.direction = IF moving /\ speed > 1
                          THEN Atan2Deg(new_velocity[2], new_velocity[1]) ELSE @]

\* variant: confirmation needs age > min_hits
applyMatch_StrictAge(track, detection, timestamp, min_hits) ==
    LET matched == matchedTrack(track, detection, timestamp)
    IN  [matched EXCEPT !.is_confirmed =
            IF ~matched.is_confirmed /\ matched.age > min_hits THEN TRUE ELSE @]

\* body of the loop of updateMatchedTracks for one matched track:
\* if (!track.is_confirmed && track.age >= config_.min_hits) is_confirmed = true
applyMatch(track, detection, timestamp, min_hits) ==
    LET matched == matchedTrack(track, detection, timestamp)
    IN  [matched EXCEPT !.is_confirmed =
            IF ~matched.is_confirmed /\ matched.age >= min_hits THEN TRUE ELSE @]

RECURSIVE updateMatchedTracks(_, _, _, _, _, _)
updateMatchedTracks(trks, matches, detections, timestamp, min_hits, i) ==
    IF i > Len(matches) THEN trks
    ELSE updateMatchedTracks(
            [trks EXCEPT ![matches[i][1]] =
                applyMatch(trks[matches[i][1]], detections[matches[i][2]], timestamp, min_hits)],
            matches, detections, timestamp, min_hits, i + 1)

\* variant: a new track starts with age 0
newTrack_AgeZero(track_id, detection, timestamp) ==
    [track_id           |-> track_id,
     detection          |-> detection,
     trajectory         |-> <<detection.center>>,
     velocity           |-> <<0, 0>>,
     acceleration       |-> <<0, 0>>,
     speed              |-> 0,
     direction          |-> 0,
     age                |-> 0,
     consecutive_misses |-> 0,
     is_confirmed       |-> FALSE,
     first_seen         |-> timestamp,
     last_updated       |-> timestamp]

\* the TrackedObject that createNewTracks builds for one unmatched detection
newTrack(track_id, detection, timestamp) ==
    [track_id           |-> track_id,
     detection          |-> detection,
     trajectory         |-> <<detection.center>>,
     velocity           |-> <<0, 0>>,
     acceleration       |-> <<0, 0>>,
     speed              |-> 0,
     direction          |-> 0,
     age                |-> 1,
     consecutive_misses |-> 0,
     is_confirmed       |-> FALSE,
     first_seen         |-> timestamp,
     last_updated       |-> timestamp]

\* variant: next_track_id_ is not advanced
createNewTracks_ReuseId(trks, next_id, unmatched_detections, detections, timestamp) ==
    [tracks |-> trks \o [k \in 1..Len(unmatched_detections) |->
                            newTrack(next_id + k - 1, detections[unmatched_detections[k]], timestamp)],
     next_track_id |-> next_id]

\* variant: the ids are handed out from the last unmatched detection backwards
createNewTracks_Reversed(trks, next_id, unmatched_detections, detections, timestamp) ==
    [tracks |-> trks \o [k \in 1..Len(unmatched_detections) |->
                            newTrack(next_id + Len(unmatched_detections) - k,
                                     detections[unmatched_detections[k]], timestamp)],
     next_track_id |-> next_id + Len(unmatched_detections)]

\* variant: the new tracks are put in front of the live tracks
createNewTracks_InFront(trks, next_id, unmatched_detections, detections, timestamp) ==
    [tracks |-> [k \in 1..Len(unmatched_detections) |->
                    newTrack(next_id + k - 1, detections[unmatched_detections[k]], timestamp)]
                \o trks,
     next_track_id |-> next_id + Len(unmatched_detections)]

\* createNewTracks: one new track per unmatched detection, ids from
\* next_track_id_ upwards (new_track.track_id = next_track_id_++)
createNewTracks(trks, next_id, unmatched_detections, detections, timestamp) ==
    [tracks |-> trks \o [k \in 1..Len(unmatched_detections) |->
                            newTrack(next_id + k - 1, detections[unmatched_detections[k]], timestamp)],
     next_track_id |-> next_id + Len(unmatched_detections)]

\* variant: a track is removed one cycle later
removeExpiredTracks_OffByOne(trks, max_age) ==
    SelectSeq(trks, LAMBDA track : ~(track.consecutive_misses > max_age + 1))

\* variant: a confirmed track is never removed
removeExpiredTracks_KeepConfirmed(trks, max_age) ==
    SelectSeq(trks, LAMBDA track : track.is_confirmed \/ ~(track.consecutive_misses > max_age))

\* removeExpiredTracks: consecutive_misses > config_.max_age
removeExpiredTracks(trks, max_age) ==
    SelectSeq(trks, LAMBDA track : ~(track.consecutive_misses > max_age))

\* variant: every live track is returned
confirmedOf_All(trks) == trks

\* the list update() returns
confirmedOf(trks) == SelectSeq(trks, LAMBDA track : track.is_confirmed)

\* update(): predict, associate, update matched, create, expire, return
update(trks, next_id, cfg, detections, timestamp) ==
    LET predicted == predictTracks(trks)
        assoc == associateDetections(predicted, detections, cfg.iou_threshold)
        updated == updateMatchedTracks(predicted, assoc.matches, detections, timestamp,
                                       cfg.min_hits, 1)
        grown == createNewTracks(updated, next_id, assoc.unmatched_detections,
                                 detections, timestamp)
        kept == removeExpiredTracks(grown.tracks, cfg.max_age)
    IN  [tracks |-> kept,
         grown |-> grown.tracks,
         next_track_id |-> grown.next_track_id,
         confirmed_tracks |-> confirmedOf(kept),
         matches |-> assoc.matches,
         unmatched_detections |-> assoc.unmatched_detections,
         predicted |-> predicted]

----------------------------------------------------------------------------
(* BehaviorAnalyzer.  Units: speeds of tracks in tenths of a pixel per      *)
(* frame, the vehicle speed in tenths of a km/h, pedestrian_running_        *)
(* threshold and non_motor_speeding_threshold in tenths, confidences in     *)
(* tenths, high_risk_distance in metres and collision_risk_ttc in seconds   *)
(* (integers); distances and times to collision are fractions.              *)

\* enum class RiskLevel
SAFE == 0
LOW_RISK == 1
MEDIUM_RISK == 2
HIGH_RISK == 3
CRITICAL_RISK == 4

\* a < b for fractions with positive denominators
RatLT(a, b) == a[1] * b[2] < b[1] * a[2]

\* a default-constructed BehaviorAnalysis
DefaultAnalysis ==
    [track_id            |-> -1,
     behavior            |-> "PEDESTRIAN_STANDING",
     behavior_name       |-> "",
     confidence          |-> 0,
     risk_level          |-> SAFE,
     risk_description    |-> "",
     location            |-> <<0, 0>>,
     distance_to_vehicle |-> <<0, 1>>,
     time_to_collision   |-> <<0, 1>>,
     timestamp           |-> 0,
     llm_analysis        |-> ""]

\* estimateDistance: max(1, min(50, 1000 / (height + 1)))
estimateDistance(bbox) ==
    LET den == bbox.height + 1
    IN  IF den = 0 THEN <<50, 1>>            \* 1000 / 0 = +inf
        ELSE IF den < 0 THEN <<1, 1>>        \* negative quotient
        ELSE IF 1000 > 50 * den THEN <<50, 1>>
        ELSE IF 1000 < den THEN <<1, 1>>
        ELSE <<1000, den>>

\* variant: the approach speed is not tested before the division
calculateTimeToCollision_NoGuard(obj, vehicle_speed_kmh) ==
    IF obj.speed <= 1 \/ vehicle_speed_kmh <= 1 THEN <<-1, 1>>
    ELSE LET distance == estimateDistance(obj.detection.bbox)
             relative_speed == 25 * vehicle_speed_kmh
             approach_speed ==
                 IF obj.direction > -45 /\ obj.direction < 45
                 THEN relative_speed - 9 * obj.speed
                 ELSE IF obj.direction > 135 \/ obj.direction < -135
                 THEN relative_speed + 9 * obj.speed
                 ELSE relative_speed
         IN  <<distance[1] * 900, distance[2] * approach_speed>>

\* calculateTimeToCollision: -1 for "no collision risk".  The approach speed
\* vehicle/3.6 -+ speed*0.1 (m/s) is held as a number of 1/900 m/s.
calculateTimeToCollision(obj, vehicle_speed_kmh) ==
    IF obj.speed <= 1 \/ vehicle_speed_kmh <= 1 THEN <<-1, 1>>
    ELSE LET distance == estimateDistance(obj.detection.bbox)
             relative_speed == 25 * vehicle_speed_kmh
             approach_speed ==
                 IF obj.direction > -45 /\ obj.direction < 45
                 THEN relative_speed - 9 * obj.speed
                 ELSE IF obj.direction > 135 \/ obj.direction < -135
                 THEN relative_speed + 9 * obj.speed
                 ELSE relative_speed
         IN  IF approach_speed <= 0 THEN <<-1, 1>>
             ELSE <<distance[1] * 900, distance[2] * approach_speed>>

\* variant: two trajectory points are enough for the crossing test
analyzePedestrianBehavior_TwoPoints(obj, analysis, cfg) ==
    LET ladder ==
            IF obj.speed < 5
            THEN [analysis EXCEPT !.behavior = "PEDESTRIAN_STANDING",
                                  !.behavior_name = "standing", !.confidence = 9]
            ELSE IF obj.speed < cfg.pedestrian_running_threshold
            THEN [analysis EXCEPT !.behavior = "PEDESTRIAN_WALKING",
                                  !.behavior_name = "walking", !.confidence = 8]
            ELSE [analysis EXCEPT !.behavior = "PEDESTRIAN_RUNNING",
                                  !.behavior_name = "running", !.confidence = 8]
        n == Len(obj.trajectory)
        horizontal_movement == Abs(obj.trajectory[n][1] - obj.trajectory[1][1])
        vertical_movement == Abs(obj.trajectory[n][2] - obj.trajectory[1][2])
    IN  IF n >= 2 /\ horizontal_movement > vertical_movement * 2 /\ horizontal_movement > 20
        THEN [ladder EXCEPT !.behavior = "PEDESTRIAN_CROSSING",
                            !.behavior_name = "crossing", !.confidence = 7]
        ELSE ladder

\* analyzePedestrianBehavior
analyzePedestrianBehavior(obj, analysis, cfg) ==
    LET ladder ==
            IF obj.speed < 5
            THEN [analysis EXCEPT !.behavior = "PEDESTRIAN_STANDING",
                                  !.behavior_name = "standing", !.confidence = 9]
            ELSE IF obj.speed < cfg.pedestrian_running_threshold
            THEN [analysis EXCEPT !.behavior = "PEDESTRIAN_WALKING",
                                  !.behavior_name = "walking", !.confidence = 8]
            ELSE [analysis EXCEPT !.behavior = "PEDESTRIAN_RUNNING",
                                  !.behavior_name = "running", !.confidence = 8]
        n == Len(obj.trajectory)
        horizontal_movement == Abs(obj.trajectory[n][1] - obj.trajectory[1][1])
        vertical_movement == Abs(obj.trajectory[n][2] - obj.trajectory[1][2])
    IN  IF n >= 3 /\ horizontal_movement > vertical_movement * 2 /\ horizontal_movement > 20
        THEN [ladder EXCEPT !.behavior = "PEDESTRIAN_CROSSING",
                            !.behavior_name = "crossing", !.confidence = 7]
        ELSE ladder

\* variant: the brake test is made for every trajectory length
analyzeNonMotorBehavior_BrakeUnguarded(obj, analysis, cfg) ==
    LET ladder ==
            IF obj.speed < 5
            THEN [analysis EXCEPT !.behavior = "NON_MOTOR_STOPPED",
                                  !.behavior_name = "stopped", !.confidence = 9]
            ELSE IF obj.speed < cfg.non_motor_speeding_threshold
            THEN [analysis EXCEPT !.behavior = "NON_MOTOR_MOVING",
                                  !.behavior_name = "moving", !.confidence = 8]
            ELSE [analysis EXCEPT !.behavior = "NON_MOTOR_SPEEDING",
                                  !.behavior_name = "speeding", !.confidence = 8]
        n == Len(obj.trajectory)
        \* norm(acceleration) > 5.0
        braking == n >= 1 /\ obj.acceleration[1] * obj.acceleration[1]
                              + obj.acceleration[2] * obj.acceleration[2] > 25
        brake == IF braking
                 THEN [ladder EXCEPT !.behavior = "NON_MOTOR_SUDEN_BRAKE",
                                     !.behavior_name = "sudden_brake", !.confidence = 7]
                 ELSE ladder
        \* directions[i] is the direction of trajectory[i+1] - trajectory[i]
        directions == [i \in 1..(n - 1) |->
                         Atan2Deg(obj.trajectory[i + 1][2] - obj.trajectory[i][2],
                                  obj.trajectory[i + 1][1] - obj.trajectory[i][1])]
        turning == n >= 5 /\ Abs(directions[n - 1] - directions[n - 3]) > 45
    IN  IF turning
        THEN [brake EXCEPT !.behavior = "NON_MOTOR_SUDEN_TURN",
                           !.behavior_name = "sudden_turn", !.confidence = 6]
        ELSE brake

\* analyzeNonMotorBehavior
analyzeNonMotorBehavior(obj, analysis, cfg) ==
    LET ladder ==
            IF obj.speed < 5
            THEN [analysis EXCEPT !.behavior = "NON_MOTOR_STOPPED",
                                  !.behavior_name = "stopped", !.confidence = 9]
            ELSE IF obj.speed < cfg.non_motor_speeding_threshold
            THEN [analysis EXCEPT !.behavior = "NON_MOTOR_MOVING",
                                  !.behavior_name = "moving", !.confidence = 8]
            ELSE [analysis EXCEPT !.behavior = "NON_MOTOR_SPEEDING",
                                  !.behavior_name = "speeding", !.confidence = 8]
        n == Len(obj.trajectory)
        \* norm(acceleration) > 5.0
        braking == n >= 3 /\ obj.acceleration[1] * obj.acceleration[1]
                              + obj.acceleration[2] * obj.acceleration[2] > 25
        brake == IF braking
                 THEN [ladder EXCEPT !.behavior = "NON_MOTOR_SUDEN_BRAKE",
                                     !.behavior_name = "sudden_brake", !.confidence = 7]
                 ELSE ladder
        \* directions[i] is the direction of trajectory[i+1] - trajectory[i]
        directions == [i \in 1..(n - 1) |->
                         Atan2Deg(obj.trajectory[i + 1][2] - obj.trajectory[i][2],
                                  obj.trajectory[i + 1][1] - obj.trajectory[i][1])]
        turning == n >= 5 /\ Abs(directions[n - 1] - directions[n - 3]) > 45
    IN  IF turning
        THEN [brake EXCEPT !.behavior = "NON_MOTOR_SUDEN_TURN",
                           !.behavior_name = "sudden_turn", !.confidence = 6]
        ELSE brake

\* variant: an animal is entering the road below twice the high-risk distance
analyzeAnimalBehavior_WiderZone(obj, analysis, cfg) ==
    IF obj.speed < 5
    THEN [analysis EXCEPT !.behavior = "ANIMAL_STATIONARY",
                          !.behavior_name = "stationary", !.confidence = 9]
    ELSE IF RatLT(analysis.distance_to_vehicle, <<cfg.high_risk_distance * 2, 1>>)
    THEN [analysis EXCEPT !.behavior = "ANIMAL_ENTERING_ROAD",
                          !.behavior_name = "entering_road", !.confidence = 7]
    ELSE [analysis EXCEPT !.behavior = "ANIMAL_MOVING",
                          !.behavior_name = "moving", !.confidence = 8]

\* analyzeAnimalBehavior
analyzeAnimalBehavior(obj, analysis, cfg) ==
    IF obj.speed < 5
    THEN [analysis EXCEPT !.behavior = "ANIMAL_STATIONARY",
                          !.behavior_name = "stationary", !.confidence = 9]
    ELSE IF RatLT(analysis.distance_to_vehicle, <<cfg.high_risk_distance, 1>>)
    THEN [analysis EXCEPT !.behavior = "ANIMAL_ENTERING_ROAD",
                          !.behavior_name = "entering_road", !.confidence = 7]
    ELSE [analysis EXCEPT !.behavior = "ANIMAL_MOVING",
                          !.behavior_name = "moving", !.confidence = 8]

\* variant: the high_risk_distance rule is tried before the 5 m rule
assessRiskLevel_DistanceOrder(obj, analysis, cfg) ==
    LET distance == analysis.distance_to_vehicle
    IN  IF RatLT(distance, <<cfg.high_risk_distance, 1>>) THEN HIGH_RISK
        ELSE IF RatLT(distance, <<5, 1>>) THEN CRITICAL_RISK
        ELSE IF RatLT(distance, <<cfg.high_risk_distance * 2, 1>>) THEN MEDIUM_RISK
        ELSE LOW_RISK

\* variant: the levels of the two outer distance bands are exchanged
assessRiskLevel_BandsSwapped(obj, analysis, cfg) ==
    LET distance == analysis.distance_to_vehicle
        ttc == analysis.time_to_collision
    IN  IF RatLT(distance, <<5, 1>>) THEN CRITICAL_RISK
        ELSE IF RatLT(distance, <<cfg.high_risk_distance, 1>>) THEN MEDIUM_RISK
        ELSE IF RatLT(distance, <<cfg.high_risk_distance * 2, 1>>) THEN HIGH_RISK
        ELSE IF RatGT(ttc, <<0, 1>>) /\ RatLT(ttc, <<cfg.collision_risk_ttc, 1>>) THEN HIGH_RISK
        ELSE IF RatGT(ttc, <<0, 1>>) /\ RatLT(ttc, <<cfg.collision_risk_ttc * 2, 1>>)
             THEN MEDIUM_RISK
        ELSE IF analysis.behavior \in {"PEDESTRIAN_RUNNING", "PEDESTRIAN_CROSSING",
                                       "NON_MOTOR_SPEEDING", "NON_MOTOR_SUDEN_BRAKE",
                                       "NON_MOTOR_SUDEN_TURN", "ANIMAL_ENTERING_ROAD"}
             THEN MEDIUM_RISK
        ELSE LOW_RISK

\* variant: a behaviour outside the list is rated Safe
assessRiskLevel_SafeByDefault(obj, analysis, cfg) ==
    LET distance == analysis.distance_to_vehicle
        ttc == analysis.time_to_collision
    IN  IF RatLT(distance, <<5, 1>>) THEN CRITICAL_RISK
        ELSE IF RatLT(distance, <<cfg.high_risk_distance, 1>>) THEN HIGH_RISK
        ELSE IF RatLT(distance, <<cfg.high_risk_distance * 2, 1>>) THEN MEDIUM_RISK
        ELSE IF RatGT(ttc, <<0, 1>>) /\ RatLT(ttc, <<cfg.collision_risk_ttc, 1>>) THEN HIGH_RISK
        ELSE IF RatGT(ttc, <<0, 1>>) /\ RatLT(ttc, <<cfg.collision_risk_ttc * 2, 1>>)
             THEN MEDIUM_RISK
        ELSE IF analysis.behavior \in {"PEDESTRIAN_RUNNING", "PEDESTRIAN_CROSSING",
                                       "NON_MOTOR_SPEEDING", "NON_MOTOR_SUDEN_BRAKE",
                                       "NON_MOTOR_SUDEN_TURN", "ANIMAL_ENTERING_ROAD"}
             THEN MEDIUM_RISK
        ELSE SAFE

\* variant: the behaviour rule is tried before the distance rules
assessRiskLevel_BehaviourFirst(obj, analysis, cfg) ==
    LET distance == analysis.distance_to_vehicle
        ttc == analysis.time_to_collision
    IN  IF analysis.behavior \in {"PEDESTRIAN_RUNNING", "PEDESTRIAN_CROSSING",
                                  "NON_MOTOR_SPEEDING", "NON_MOTOR_SUDEN_BRAKE",
                                  "NON_MOTOR_SUDEN_TURN", "ANIMAL_ENTERING_ROAD"}
        THEN MEDIUM_RISK
        ELSE IF RatLT(distance, <<5, 1>>) THEN CRITICAL_RISK
        ELSE IF RatLT(distance, <<cfg.high_risk_distance, 1>>) THEN HIGH_RISK
        ELSE IF RatLT(distance, <<cfg.high_risk_distance * 2, 1>>) THEN MEDIUM_RISK
        ELSE IF RatGT(ttc, <<0, 1>>) /\ RatLT(ttc, <<cfg.collision_risk_ttc, 1>>) THEN HIGH_RISK
        ELSE IF RatGT(ttc, <<0, 1>>) /\ RatLT(ttc, <<cfg.collision_risk_ttc * 2, 1>>)
             THEN MEDIUM_RISK
        ELSE LOW_RISK

\* assessRiskLevel: reads the distance and the time to collision that the
\* analysis record holds when the function is called
assessRiskLevel(obj, analysis, cfg) ==
    LET distance == analysis.distance_to_vehicle
        ttc == analysis.time_to_collision
    IN  IF RatLT(distance, <<5, 1>>) THEN CRITICAL_RISK
        ELSE IF RatLT(distance, <<cfg.high_risk_distance, 1>>) THEN HIGH_RISK
        ELSE IF RatLT(distance, <<cfg.high_risk_distance * 2, 1>>) THEN MEDIUM_RISK
        ELSE IF RatGT(ttc, <<0, 1>>) /\ RatLT(ttc, <<cfg.collision_risk_ttc, 1>>) THEN HIGH_RISK
        ELSE IF RatGT(ttc, <<0, 1>>) /\ RatLT(ttc, <<cfg.collision_risk_ttc * 2, 1>>)
             THEN MEDIUM_RISK
        ELSE IF analysis.behavior \in {"PEDESTRIAN_RUNNING", "PEDESTRIAN_CROSSING",
                                       "NON_MOTOR_SPEEDING", "NON_MOTOR_SUDEN_BRAKE",
                                       "NON_MOTOR_SUDEN_TURN", "ANIMAL_ENTERING_ROAD"}
             THEN MEDIUM_RISK
        ELSE LOW_RISK

\* getRiskDescription
getRiskDescription(risk) ==
    CASE risk = SAFE -> "Safe"
      [] risk = LOW_RISK -> "Low risk"
      [] risk = MEDIUM_RISK -> "Medium risk - attention required"
      [] risk = HIGH_RISK -> "High risk - caution advised"
      [] risk = CRITICAL_RISK -> "Critical risk - immediate action required"
      [] OTHER -> "Unknown risk"

\* analyzeObject, statement by statement: the distance, the behaviour of the
\* class, the risk level, the risk description, and last the time to collision
analyzeObject(obj, cfg, vehicle_speed_kmh) ==
    LET a0 == [DefaultAnalysis EXCEPT
                  !.track_id = obj.track_id,
                  !.location = obj.detection.center,
                  !.timestamp = obj.last_updated]
        a1 == [a0 EXCEPT !.distance_to_vehicle = estimateDistance(obj.detection.bbox)]
        class == obj.detection.class_id
        a2 == IF class = "PEDESTRIAN" THEN analyzePedestrianBehavior(obj, a1, cfg)
              ELSE IF class \in {"CYCLIST", "MOTORCYCLIST", "BICYCLE", "MOTORCYCLE", "TRICYCLE"}
                   THEN analyzeNonMotorBehavior(obj, a1, cfg)
              ELSE IF class = "ANIMAL" THEN analyzeAnimalBehavior(obj, a1, cfg)
              ELSE [a1 EXCEPT !.behavior = "PEDESTRIAN_STANDING",
                              !.behavior_name = "unknown", !.confidence = 5]
        a3 == [a2 EXCEPT !.risk_level = assessRiskLevel(obj, a2, cfg)]
        a4 == [a3 EXCEPT !.risk_description = getRiskDescription(a3.risk_level)]
    IN  [a4 EXCEPT !.time_to_collision = calculateTimeToCollision(obj, vehicle_speed_kmh)]

\* analyze: one BehaviorAnalysis per tracked object, in order
analyze(tracked_objects, cfg, vehicle_speed_kmh) ==
    [i \in 1..Len(tracked_objects) |-> analyzeObject(tracked_objects[i], cfg, vehicle_speed_kmh)]

----------------------------------------------------------------------------
(* History of a track, kept per live track id: it is computed from the      *)
(* association result of each update(), not from the fields of the track.   *)

\* history of a track in the update() that creates it
bornHist(timestamp) ==
    [life |-> 1,            \* update() calls of its life, the creating one included
     hits |-> 1,            \* detections it received: the creating one and every match
     streak |-> 1,          \* current run of consecutive cycles with a detection
     missRun |-> 0,         \* current run of unmatched cycles under an unchanged max_age
     everMissed |-> FALSE,  \* some cycle of its life left it unmatched
     mhConst |-> TRUE,      \* min_hits has not changed during its life
     born |-> timestamp]

matchedHist(h) ==
    [h EXCEPT !.life = @ + 1, !.hits = @ + 1, !.streak = @ + 1, !.missRun = 0]

missedHist(h) ==
    [h EXCEPT !.life = @ + 1, !.streak = 0, !.missRun = @ + 1, !.everMissed = TRUE]

LiveIds(trks) == {trks[i].track_id : i \in 1..Len(trks)}

\* no update() since the tracker was last cleared
NoCall == [detections |-> <<>>, matches |-> <<>>, unmatched_detections |-> <<>>,
           track_ids |-> <<>>]

----------------------------------------------------------------------------
(* Tracker operations *)

\* constructor followed by initialize(config)
TrackerInit ==
    /\ tracks_ = <<>>
    /\ next_track_id_ = 1
    /\ config_ \in TrackerConfigs
    /\ confirmed_tracks = <<>>
    /\ lastOp = "initialize"
    /\ nUpdates = 0
    /\ created = <<>>
    /\ hist = <<>>
    /\ expired = {}
    /\ soloRun = 0
    /\ lastCall = NoCall
    /\ emptyRun = 0

\* initialize(config)
Initialize(cfg) ==
    /\ config_' = cfg
    /\ tracks_' = <<>>
    /\ next_track_id_' = 1
    /\ lastOp' = "initialize"
    /\ created' = <<>>
    /\ hist' = <<>>
    /\ expired' = {}
    /\ soloRun' = 0
    /\ lastCall' = NoCall
    /\ emptyRun' = 0
    /\ UNCHANGED <<confirmed_tracks, nUpdates>>
    /\ UNCHANGED <<analyzerVars, systemVars, assocVars, llmVars, poolVars, videoVars, lifeVars>>

\* variant: reset() leaves next_track_id_ alone
Reset_KeepsCounter ==
    /\ tracks_' = <<>>
    /\ lastOp' = "reset"
    /\ created' = <<>>
    /\ hist' = <<>>
    /\ expired' = {}
    /\ soloRun' = 0
    /\ lastCall' = NoCall
    /\ emptyRun' = 0
    /\ UNCHANGED <<next_track_id_, config_, confirmed_tracks, nUpdates>>
    /\ UNCHANGED <<analyzerVars, systemVars, assocVars, llmVars, poolVars, videoVars, lifeVars>>

\* reset()
Reset ==
    /\ tracks_' = <<>>
    /\ next_track_id_' = 1
    /\ lastOp' = "reset"
    /\ created' = <<>>
    /\ hist' = <<>>
    /\ expired' = {}
    /\ soloRun' = 0
    /\ lastCall' = NoCall
    /\ emptyRun' = 0
    /\ UNCHANGED <<config_, confirmed_tracks, nUpdates>>
    /\ UNCHANGED <<analyzerVars, systemVars, assocVars, llmVars, poolVars, videoVars, lifeVars>>

\* setMaxAge(max_age)
SetMaxAge(max_age) ==
    /\ config_' = [config_ EXCEPT !.max_age = max_age]
    /\ hist' = [id \in DOMAIN hist |->
                  IF max_age # config_.max_age THEN [hist[id] EXCEPT !.missRun = 0] ELSE hist[id]]
    /\ emptyRun' = IF max_age # config_.max_age THEN 0 ELSE emptyRun
    /\ UNCHANGED <<tracks_, next_track_id_, confirmed_tracks, lastOp, nUpdates, created, expired,
                   soloRun, lastCall>>
    /\ UNCHANGED <<analyzerVars, systemVars, assocVars, llmVars, poolVars, videoVars, lifeVars>>

\* setMinHits(min_hits)
SetMinHits(min_hits) ==
    /\ config_' = [config_ EXCEPT !.min_hits = min_hits]
    /\ hist' = [id \in DOMAIN hist |->
                  IF min_hits # config_.min_hits THEN [hist[id] EXCEPT !.mhConst = FALSE] ELSE hist[id]]
    /\ soloRun' = IF min_hits # config_.min_hits /\ soloRun > 0 THEN -1 ELSE soloRun
    /\ UNCHANGED <<tracks_, next_track_id_, confirmed_tracks, lastOp, nUpdates, created, expired,
                   lastCall, emptyRun>>
    /\ UNCHANGED <<analyzerVars, systemVars, assocVars, llmVars, poolVars, videoVars, lifeVars>>

\* history of track id after an update() that found the ids known live,
\* matched the ids matchedIds and created the others
histAfter(id, known, matchedIds, timestamp) ==
    IF id \notin known THEN bornHist(timestamp)
    ELSE IF id \in matchedIds THEN matchedHist(hist[id])
    ELSE missedHist(hist[id])

\* update(detections, timestamp); the timestamp is the number of the call.
\* r is what the call computes, after[id] the history of track id once the
\* call has returned.
UpdateCall(detections) ==
    /\ \E r \in {update(tracks_, next_track_id_, config_, detections, nUpdates + 1)} :
       \E matchedIds \in {{r.predicted[r.matches[i][1]].track_id : i \in 1..Len(r.matches)}} :
       \E after \in {[id \in LiveIds(r.grown) |->
                        histAfter(id, LiveIds(tracks_), matchedIds, nUpdates + 1)]} :
          /\ tracks_' = r.tracks
          /\ next_track_id_' = r.next_track_id
          /\ confirmed_tracks' = r.confirmed_tracks
          \* the ids of the tracks this call appended to the live set
          /\ created' = created \o [k \in 1..(Len(r.grown) - Len(tracks_)) |->
                                       r.grown[Len(tracks_) + k].track_id]
          /\ hist' = [id \in LiveIds(r.tracks) |-> after[id]]
          /\ expired' = {[track_id |-> r.grown[i].track_id,
                          is_confirmed |-> r.grown[i].is_confirmed,
                          missRun |-> after[r.grown[i].track_id].missRun] :
                         i \in {k \in 1..Len(r.grown) :
                                   r.grown[k].track_id \notin LiveIds(r.tracks)}}
          /\ soloRun' = IF /\ soloRun >= 0
                           /\ Len(detections) = 1
                           /\ IF soloRun = 0 THEN Len(tracks_) = 0 ELSE Len(r.matches) = 1
                           /\ Len(r.tracks) = 1
                        THEN soloRun + 1 ELSE -1
          /\ lastCall' = [detections |-> detections,
                          matches |-> r.matches,
                          unmatched_detections |-> r.unmatched_detections,
                          track_ids |-> [t \in 1..Len(r.predicted) |-> r.predicted[t].track_id]]
          /\ emptyRun' = IF detections = <<>> THEN emptyRun + 1 ELSE 0
    /\ nUpdates' = nUpdates + 1
    /\ lastOp' = "update"
    /\ UNCHANGED config_
    /\ UNCHANGED <<analyzerVars, systemVars, assocVars, llmVars, poolVars, videoVars, lifeVars>>

\* update() on a tracker that has been updated fewer than MaxUpdates times
Update(detections) ==
    /\ nUpdates < MaxUpdates
    /\ UpdateCall(detections)

----------------------------------------------------------------------------
(* A long-lived track: one object detected in every frame, moving 2 pixels  *)
(* to the right per frame, so that every update() matches it.               *)

\* the detection of the object in the n-th frame
PathDetection(n) == Detection("PEDESTRIAN", Rect(2 * n, 0, 8, 8))

\* a detection far from the path in the n-th frame
StrayDetection(n) == Detection("CYCLIST", Rect(2 * n, 40, 8, 8))

\* the track after update(<<PathDetection(k)>>, k) for k = 1..n, n >= 2, on
\* a tracker that was empty: created by the first call, matched by the
\* others, each at IOU 1 with the predicted box
LongTrack(n, cfg) ==
    [newTrack(1, PathDetection(1), 1) EXCEPT
        !.detection = PathDetection(n),
        !.last_updated = n,
        !.age = n,
        !.is_confirmed = n >= cfg.min_hits,
        !.trajectory = [k \in 1..Min2(n, TrajectoryCap) |->
                           PathDetection(n - Min2(n, TrajectoryCap) + k).center],
        !.velocity = <<2, 0>>,
        !.acceleration = IF n = 2 THEN <<2, 0>> ELSE <<0, 0>>,
        !.speed = 20,
        !.direction = 0]

\* the numbers of frames after which the long-lived track is observed
LongTrackFrames == {TrajectoryCap - 1, TrajectoryCap}

\* initialize(cfg) and n updates along the path
LongTrackInit ==
    \E cfg \in TrackerConfigs : \E n \in LongTrackFrames :
        /\ tracks_ = <<LongTrack(n, cfg)>>
        /\ next_track_id_ = 2
        /\ config_ = cfg
        /\ confirmed_tracks = confirmedOf(tracks_)
        /\ lastOp = "update"
        /\ nUpdates = n
        /\ created = <<1>>
        /\ hist = [id \in {1} |-> [life |-> n, hits |-> n, streak |-> n, missRun |-> 0,
                                   everMissed |-> FALSE, mhConst |-> TRUE, born |-> 1]]
        /\ expired = {}
        /\ soloRun = n
        /\ lastCall = [detections |-> <<PathDetection(n)>>, matches |-> <<<<1, 1>>>>,
                       unmatched_detections |-> <<>>, track_ids |-> <<1>>]
        /\ emptyRun = 0

\* the next frames: nothing, the object, a stray detection, or both
LongTrackUpdate ==
    /\ nUpdates < TrajectoryCap + MaxUpdates
    /\ \E detections \in {<<>>, <<PathDetection(nUpdates + 1)>>,
                           <<StrayDetection(nUpdates + 1)>>,
                           <<PathDetection(nUpdates + 1), StrayDetection(nUpdates + 1)>>} :
           UpdateCall(detections)

\* frames in which the object of the path may be missing, tracked with the
\* default configuration (max_age 30): nothing, the object, or a stray
\* detection
MissUpdate ==
    /\ nUpdates < MaxMissFrames
    /\ \E detections \in {<<>>, <<PathDetection(nUpdates + 1)>>,
                           <<StrayDetection(nUpdates + 1)>>} :
           UpdateCall(detections)

----------------------------------------------------------------------------
(* Behaviour analyzer operations *)

\* a default-constructed SystemConfig::BehaviorConfig; the two speed
\* thresholds are in tenths, like TrackedObject.speed
DefaultBehaviorConfig ==
    [high_risk_distance           |-> 10,
     collision_risk_ttc           |-> 3,
     pedestrian_running_threshold |-> 25,
     non_motor_speeding_threshold |-> 50]

\* the configurations the analyzer is initialized with
BehaviorConfigs ==
    {DefaultBehaviorConfig,
     [DefaultBehaviorConfig EXCEPT !.high_risk_distance = 12],
     [DefaultBehaviorConfig EXCEPT !.high_risk_distance = 3, !.collision_risk_ttc = 5]}

\* vehicle speeds in tenths of km/h: 0 (the constructor's value), 0.1, 2, 36
\* and 108 km/h
VehicleSpeeds == {0, 1, 20, 360, 1080}

\* trajectories of a track: one point; two and three points with a net
\* displacement of 30 to the right and 5 down; five points that end with a
\* turn from rightwards to upwards (net displacement 20, 20)
Trajectories ==
    {<<<<50, 50>>>>,
     <<<<50, 50>>, <<80, 55>>>>,
     <<<<50, 50>>, <<65, 52>>, <<80, 55>>>>,
     <<<<50, 50>>, <<60, 50>>, <<70, 50>>, <<70, 60>>, <<70, 70>>>>}

\* box heights: distance clamped to 50 m, 1000/31, 1000/61, 1000/200 = 5 and
\* 1000/201 m
BoxHeights == {8, 30, 60, 199, 200}

\* the tracked objects analyze() is given
AnalyzedObjects ==
    {[newTrack(1, Detection(class, Rect(40, 40, 20, height)), 1) EXCEPT
         !.trajectory = trajectory,
         !.acceleration = acceleration,
         !.speed = speed,
         !.direction = direction,
         !.is_confirmed = TRUE] :
       class \in {"UNKNOWN", "PEDESTRIAN", "CYCLIST", "ANIMAL"},
       height \in BoxHeights,
       trajectory \in Trajectories,
       acceleration \in {<<0, 0>>, <<6, 0>>},
       speed \in {0, 3, 20, 60},
       direction \in {0, 90, 180, -150}}

\* analyzer constructed and initialized, nothing analyzed yet
AnalyzerIdle ==
    /\ analyzer_config_ = DefaultBehaviorConfig
    /\ vehicle_speed_kmh_ = 0
    /\ analyze_input = <<>>
    /\ behaviors = <<>>

\* constructor, initialize(config), and the track list of the analyze() calls
AnalyzerInit ==
    /\ analyzer_config_ \in BehaviorConfigs
    /\ vehicle_speed_kmh_ = 0
    /\ analyze_input \in {<<obj>> : obj \in AnalyzedObjects}
    /\ behaviors = <<>>

\* constructor, initialize(config), and analyze() called with two tracks that
\* differ in the height of their boxes only, the second one lower
PairAnalyzerInit ==
    /\ analyzer_config_ \in BehaviorConfigs
    /\ vehicle_speed_kmh_ = 0
    /\ \E near \in AnalyzedObjects :
           \E height \in {h \in BoxHeights : h < near.detection.bbox.height} :
               analyze_input = <<near, [near EXCEPT !.track_id = 2,
                                                    !.detection.bbox.height = height]>>
    /\ behaviors = <<>>

\* setVehicleSpeed(speed_kmh)
SetVehicleSpeed(speed_kmh) ==
    /\ vehicle_speed_kmh_' = speed_kmh
    /\ UNCHANGED <<analyzer_config_, analyze_input, behaviors>>
    /\ UNCHANGED <<trackerVars, historyVars, systemVars, assocVars, llmVars, poolVars, videoVars, lifeVars>>

\* analyze(tracked_objects)
Analyze ==
    /\ behaviors' = analyze(analyze_input, analyzer_config_, vehicle_speed_kmh_)
    /\ UNCHANGED <<analyzer_config_, vehicle_speed_kmh_, analyze_input>>
    /\ UNCHANGED <<trackerVars, historyVars, systemVars, assocVars, llmVars, poolVars, videoVars, lifeVars>>

----------------------------------------------------------------------------
(* LLM enhancer (vision/src/llm_enhancer.cpp 22..123).  A text is held as   *)
(* the tuple of the parts the code concatenates.                            *)

\* generateMockLLMAnalysis: the text chosen by the risk level;
\* static_cast<int>(distance_to_vehicle) truncates the distance
generateMockLLMAnalysis(analysis) ==
    CASE analysis.risk_level = CRITICAL_RISK ->
             <<"URGENT: Object detected at critical distance. Immediate attention required. Consider emergency braking or evasive maneuvers.">>
      [] analysis.risk_level = HIGH_RISK ->
             <<"HIGH ALERT: Object showing ", analysis.behavior_name, " behavior at ",
               analysis.distance_to_vehicle[1] \div analysis.distance_to_vehicle[2],
               "m distance. Monitor closely and prepare for potential action.">>
      [] analysis.risk_level = MEDIUM_RISK ->
             <<"CAUTION: Object exhibiting ", analysis.behavior_name,
               " behavior. Maintain awareness and adjust speed if necessary.">>
      [] analysis.risk_level = LOW_RISK ->
             <<"NOTICE: Object detected with ", analysis.behavior_name,
               " behavior. Continue normal operation with standard vigilance.">>
      [] OTHER -> <<"Object detected. No immediate risk identified.">>

\* variant: the enhancement also replaces the risk description
enhanceAnalysis_IntoRiskDescription(basic, tracked_objects, cfg) ==
    IF ~cfg.enable THEN basic
    ELSE [i \in 1..Len(basic) |->
             [basic[i] EXCEPT !.llm_analysis = generateMockLLMAnalysis(basic[i]),
                              !.risk_description = "See LLM analysis"]]

\* enhanceAnalysis: the input when disabled, else a copy of the input with
\* llm_analysis set in every element
enhanceAnalysis(basic, tracked_objects, cfg) ==
    IF ~cfg.enable THEN basic
    ELSE [i \in 1..Len(basic) |->
             [basic[i] EXCEPT !.llm_analysis = generateMockLLMAnalysis(basic[i])]]

\* LLMConfig: enable is false by default
LLMConfigs == {[enable |-> FALSE], [enable |-> TRUE]}

\* the enhancer with the default configuration, never called
LlmIdle ==
    /\ llm_config_ = [enable |-> FALSE]
    /\ basic_analysis = <<>>
    /\ enhanced_results = <<>>

\* constructor and initialize(config)
LlmInit ==
    /\ llm_config_ \in LLMConfigs
    /\ basic_analysis = <<>>
    /\ enhanced_results = <<>>

\* the tracked objects of the frames whose analysis is enhanced
LlmObjects ==
    {[newTrack(1, Detection(class, Rect(40, 40, 20, height)), 1) EXCEPT
         !.speed = speed, !.is_confirmed = TRUE] :
       class \in {"PEDESTRIAN", "CYCLIST"},
       height \in {8, 120, 200},
       speed \in {3, 60}}

\* lists of at most two tracked objects, with track ids 1 and 2
LlmTrackLists ==
    {<<>>} \cup {<<a>> : a \in LlmObjects}
           \cup {<<a, [b EXCEPT !.track_id = 2]>> : a \in LlmObjects, b \in LlmObjects}

\* the analyzer of a system whose frames hold these lists
LlmAnalyzerInit ==
    /\ analyzer_config_ \in BehaviorConfigs
    /\ vehicle_speed_kmh_ = 0
    /\ analyze_input \in LlmTrackLists
    /\ behaviors = <<>>

\* enhanceAnalysis(behaviors, tracked_objects), step 4 of processFrame
EnhanceAnalysis ==
    /\ basic_analysis' = behaviors
    /\ enhanced_results' = enhanceAnalysis(behaviors, analyze_input, llm_config_)
    /\ UNCHANGED llm_config_
    /\ UNCHANGED <<trackerVars, historyVars, analyzerVars, systemVars, assocVars>>
    /\ UNCHANGED <<poolVars, videoVars, lifeVars>>

----------------------------------------------------------------------------
(* Tracking followed by analysis, one frame after the other: steps 2 and 3  *)
(* of processFrame (vehicle_perception_system.cpp 269, 275) without the     *)
(* pool.  The frames show a cyclist in a 20 x 20 box that moves 6 pixels to *)
(* the right, then turns and moves down by 6 and by 12 pixels.              *)

CyclistBoxes == {Rect(0, 0, 20, 20), Rect(6, 0, 20, 20), Rect(6, 6, 20, 20), Rect(6, 18, 20, 20)}

\* what the detector reports for a frame: nothing, the cyclist at one of the
\* positions, or a motorcycle at the first position
PipeDetectionLists ==
    {<<>>} \cup {<<Detection("CYCLIST", box)>> : box \in CyclistBoxes}
           \cup {<<Detection("MOTORCYCLE", Rect(0, 0, 20, 20))>>}

\* tracked_objects = object_tracker_->update(detections, timestamp)
PipeUpdate(detections) ==
    /\ nUpdates < MaxPipeFrames
    /\ UpdateCall(detections)

\* behaviors = behavior_analyzer_->analyze(tracked_objects)
AnalyzeTracks ==
    /\ lastOp = "update"
    /\ analyze_input' = confirmed_tracks
    /\ behaviors' = analyze(confirmed_tracks, analyzer_config_, vehicle_speed_kmh_)
    /\ UNCHANGED <<analyzer_config_, vehicle_speed_kmh_>>
    /\ UNCHANGED <<trackerVars, historyVars, systemVars, assocVars, llmVars, poolVars, videoVars, lifeVars>>

----------------------------------------------------------------------------
(* The perception system: the video thread hands every frame to the pool,   *)
(* each pool worker runs processFrame on the frame it took.                 *)

Workers == 1..NumWorkers

\* locals of a worker that is not inside processFrame
NoLocal == [frame |-> 0, detections |-> <<>>, base |-> <<>>,
            tracked_objects |-> <<>>, behaviors |-> <<>>]

\* what the detector reports for a frame
FrameDetections == {<<DetLeft>>, <<DetMoved>>}

\* the constructed system, never started: used by the behaviours that
\* exercise one component
SystemIdle ==
    /\ state_ = "STOPPED"
    /\ paused_ = FALSE
    /\ tasks_ = <<>>
    /\ pc = [w \in Workers |-> "wait"]
    /\ local = [w \in Workers |-> NoLocal]
    /\ last_results_ = <<>>
    /\ nFrames = 0
    /\ updateLog = <<>>
    /\ storeLog = <<>>
    /\ callbackLog = <<>>

\* after initialize(config) and start(): running, the pool workers waiting
SystemRunning ==
    /\ state_ = "RUNNING"
    /\ paused_ = FALSE
    /\ tasks_ = <<>>
    /\ pc = [w \in Workers |-> "wait"]
    /\ local = [w \in Workers |-> NoLocal]
    /\ last_results_ = <<>>
    /\ nFrames = 0
    /\ updateLog = <<>>
    /\ storeLog = <<>>
    /\ callbackLog = <<>>

\* tracker as initialize() of the system leaves it, default configuration
TrackerIdle ==
    /\ tracks_ = <<>>
    /\ next_track_id_ = 1
    /\ config_ = DefaultTrackerConfig
    /\ confirmed_tracks = <<>>
    /\ lastOp = "initialize"
    /\ nUpdates = 0
    /\ created = <<>>
    /\ hist = <<>>
    /\ expired = {}
    /\ soloRun = 0
    /\ lastCall = NoCall
    /\ emptyRun = 0

\* frame_callback: the video thread delivers frame number nFrames + 1, whose
\* timestamp is its number; the task is queued when running and not paused
DeliverFrame ==
    /\ nFrames < MaxFrames
    /\ nFrames' = nFrames + 1
    /\ tasks_' = IF state_ = "RUNNING" /\ ~paused_ THEN Append(tasks_, nFrames + 1) ELSE tasks_
    /\ UNCHANGED <<state_, paused_, pc, local, last_results_, updateLog, storeLog, callbackLog>>
    /\ UNCHANGED <<trackerVars, historyVars, analyzerVars, assocVars, llmVars, poolVars, videoVars, lifeVars>>

\* worker loop: a waiting worker takes the front task.  Waiting workers are
\* interchangeable, the one with the lowest number takes it.
TakeTask(w) ==
    /\ pc[w] = "wait"
    /\ \A v \in Workers : v < w => pc[v] # "wait"
    /\ tasks_ # <<>>
    /\ tasks_' = Tail(tasks_)
    /\ local' = [local EXCEPT ![w] = [NoLocal EXCEPT !.frame = Head(tasks_)]]
    /\ pc' = [pc EXCEPT ![w] = "detect"]
    /\ UNCHANGED <<state_, paused_, last_results_, nFrames, updateLog, storeLog, callbackLog>>
    /\ UNCHANGED <<trackerVars, historyVars, analyzerVars, assocVars, llmVars, poolVars, videoVars, lifeVars>>

\* processFrame up to the detector: not paused, detections = detect(frame)
Detect(w, detections) ==
    /\ pc[w] = "detect"
    /\ ~paused_
    /\ local' = [local EXCEPT ![w].detections = detections]
    /\ pc' = [pc EXCEPT ![w] = "track"]
    /\ UNCHANGED <<state_, paused_, tasks_, last_results_, nFrames, updateLog, storeLog, callbackLog>>
    /\ UNCHANGED <<trackerVars, historyVars, analyzerVars, assocVars, llmVars, poolVars, videoVars, lifeVars>>

\* the worker enters object_tracker_->update(detections, timestamp): no lock
\* is taken; base is the tracker state the call starts from
BeginUpdate(w) ==
    /\ pc[w] = "track"
    /\ local' = [local EXCEPT ![w].base = <<tracks_, next_track_id_>>]
    /\ pc' = [pc EXCEPT ![w] = "inUpdate"]
    /\ UNCHANGED <<state_, paused_, tasks_, last_results_, nFrames, updateLog, storeLog, callbackLog>>
    /\ UNCHANGED <<trackerVars, historyVars, analyzerVars, assocVars, llmVars, poolVars, videoVars, lifeVars>>

\* the worker leaves update().  When another call wrote the tracker in
\* between, the unsynchronized accesses make the result either the one
\* computed from the state the call started from or the one computed from
\* the state it finds now.
EndUpdate(w) ==
    /\ pc[w] = "inUpdate"
    /\ \E base \in {local[w].base, <<tracks_, next_track_id_>>} :
       \E r \in {update(base[1], base[2], config_, local[w].detections, local[w].frame)} :
          /\ tracks_' = r.tracks
          /\ next_track_id_' = r.next_track_id
          /\ local' = [local EXCEPT ![w].tracked_objects = r.confirmed_tracks]
    /\ updateLog' = Append(updateLog, local[w].frame)
    /\ pc' = [pc EXCEPT ![w] = "analyze"]
    /\ UNCHANGED <<config_, confirmed_tracks>>
    /\ UNCHANGED <<state_, paused_, tasks_, last_results_, nFrames, storeLog, callbackLog>>
    /\ UNCHANGED <<historyVars, analyzerVars, assocVars, llmVars, poolVars, videoVars, lifeVars>>

\* behaviors = behavior_analyzer_->analyze(tracked_objects)
AnalyzeFrame(w) ==
    /\ pc[w] = "analyze"
    /\ local' = [local EXCEPT ![w].behaviors =
                    analyze(local[w].tracked_objects, analyzer_config_, vehicle_speed_kmh_)]
    /\ pc' = [pc EXCEPT ![w] = "store"]
    /\ UNCHANGED <<state_, paused_, tasks_, last_results_, nFrames, updateLog, storeLog, callbackLog>>
    /\ UNCHANGED <<trackerVars, historyVars, analyzerVars, assocVars, llmVars, poolVars, videoVars, lifeVars>>

\* under results_mutex_: last_results_ = behaviors
StoreResults(w) ==
    /\ pc[w] = "store"
    /\ last_results_' = local[w].behaviors
    /\ storeLog' = Append(storeLog, local[w].frame)
    /\ pc' = [pc EXCEPT ![w] = "callback"]
    /\ UNCHANGED <<state_, paused_, tasks_, local, nFrames, updateLog, callbackLog>>
    /\ UNCHANGED <<trackerVars, historyVars, analyzerVars, assocVars, llmVars, poolVars, videoVars, lifeVars>>

\* under callback_mutex_: result_callback_(behaviors); processFrame returns
\* and the worker waits for the next task
ResultCallback(w) ==
    /\ pc[w] = "callback"
    /\ callbackLog' = Append(callbackLog, local[w].frame)
    /\ local' = [local EXCEPT ![w] = NoLocal]
    /\ pc' = [pc EXCEPT ![w] = "wait"]
    /\ UNCHANGED <<state_, paused_, tasks_, last_results_, nFrames, updateLog, storeLog>>
    /\ UNCHANGED <<trackerVars, historyVars, analyzerVars, assocVars, llmVars, poolVars, videoVars, lifeVars>>

----------------------------------------------------------------------------
(* The association step run on its own: the tracker holds the tracks that   *)
(* one update() created, associateDetections is called on them with a       *)
(* detection list, more than once on the same lists.                        *)

\* boxes of the tracks and detections: the three boxes of DetectionLists, a
\* box touching BoxLeft on its right edge, a box inside BoxLeft, a box of
\* width 0 and a box of negative height
BoxTouching == Rect(8, 0, 8, 8)
BoxInside == Rect(2, 2, 4, 4)
BoxNoWidth == Rect(0, 0, 0, 8)
BoxNegHeight == Rect(2, 6, 4, -4)

AssocBoxes == {BoxLeft, BoxMoved, BoxFar, BoxTouching, BoxInside, BoxNoWidth, BoxNegHeight}

\* detection lists of at most two detections over these boxes
AssocDetectionLists ==
    {<<>>} \cup {<<Detection("PEDESTRIAN", a)>> : a \in AssocBoxes}
           \cup {<<Detection("PEDESTRIAN", a), Detection("PEDESTRIAN", b)>> :
                    a \in AssocBoxes, b \in AssocBoxes}

\* iou_threshold 0, the default 0.3, and 0.25 (the IOU of BoxLeft and BoxInside)
AssocConfigs ==
    {DefaultTrackerConfig, [DefaultTrackerConfig EXCEPT !.iou_threshold = <<0, 1>>],
     [DefaultTrackerConfig EXCEPT !.iou_threshold = <<1, 4>>]}

\* no association call made on its own
AssocIdle ==
    /\ assoc_detections = <<>>
    /\ iou_matrix = <<>>
    /\ assoc_runs = <<>>

\* initialize(cfg), then update(first, 1) on the empty tracker: one tentative
\* track per detection of first; detections is the list of the calls to come
AssocInit ==
    \E cfg \in AssocConfigs : \E first \in AssocDetectionLists :
    \E detections \in AssocDetectionLists :
    \E r \in {update(<<>>, 1, cfg, first, 1)} :
        /\ tracks_ = r.tracks
        /\ next_track_id_ = r.next_track_id
        /\ config_ = cfg
        /\ confirmed_tracks = r.confirmed_tracks
        /\ lastOp = "update"
        /\ nUpdates = 1
        /\ created = [k \in 1..Len(r.tracks) |-> r.tracks[k].track_id]
        /\ hist = [id \in LiveIds(r.tracks) |-> bornHist(1)]
        /\ expired = {}
        /\ soloRun = IF Len(first) = 1 THEN 1 ELSE -1
        /\ lastCall = [detections |-> first, matches |-> r.matches,
                       unmatched_detections |-> r.unmatched_detections,
                       track_ids |-> <<>>]
        /\ emptyRun = IF first = <<>> THEN 1 ELSE 0
        /\ assoc_detections = detections
        /\ iou_matrix = <<>>
        /\ assoc_runs = <<>>

\* associateDetections(detections) on the live tracks: the IOU matrix (not
\* computed when there is no track) and the result of the call
Associate ==
    /\ Len(assoc_runs) < MaxRuns
    /\ iou_matrix' = [t \in 1..Len(tracks_) |-> [d \in 1..Len(assoc_detections) |->
                         calculateIOU(tracks_[t].detection.bbox, assoc_detections[d].bbox)]]
    /\ assoc_runs' = Append(assoc_runs,
                            associateDetections(tracks_, assoc_detections, config_.iou_threshold))
    /\ UNCHANGED assoc_detections
    /\ UNCHANGED <<trackerVars, historyVars, analyzerVars, systemVars>>
    /\ UNCHANGED <<llmVars, poolVars, videoVars, lifeVars>>

----------------------------------------------------------------------------
(* ThreadPool on its own (main/thread_pool.hpp): threads submit tasks, the  *)
(* workers run them, one thread calls stop().  Tasks are numbered in the    *)
(* order of the submit() calls.                                             *)

\* the pool as constructed: stop_ false, every worker waiting on the queue
PoolIdle ==
    /\ stop_ = FALSE
    /\ workers_ = [w \in Workers |-> [at |-> "wait", task |-> 0]]
    /\ stop_call = [at |-> "none", worker |-> 0]
    /\ submitted = <<>>
    /\ rejected = {}
    /\ executed = [t \in 1..MaxTasks |-> 0]
    /\ pendingAtStop = -1

\* the tasks some worker has taken and not finished
Running == {workers_[w].task : w \in {v \in Workers : workers_[v].at = "run"}}

\* submit(f): under queue_mutex_, throws when stop_ is set, else queues the task
Submit ==
    LET task == Len(submitted) + Cardinality(rejected) + 1
    IN  /\ task <= MaxTasks
        /\ IF stop_
           THEN /\ rejected' = rejected \cup {task}
                /\ UNCHANGED <<tasks_, submitted>>
           ELSE /\ tasks_' = Append(tasks_, task)
                /\ submitted' = Append(submitted, task)
                /\ UNCHANGED rejected
        /\ UNCHANGED <<stop_, workers_, stop_call, executed, pendingAtStop>>
        /\ UNCHANGED <<state_, paused_, pc, local, last_results_, nFrames, updateLog, storeLog, callbackLog>>
        /\ UNCHANGED <<trackerVars, historyVars, analyzerVars, assocVars, llmVars, videoVars, lifeVars>>

\* variant: a worker leaves its loop as soon as stop_ is set
WorkerTake_ExitOnStop(w) ==
    /\ workers_[w].at = "wait"
    /\ stop_ \/ tasks_ # <<>>
    /\ IF stop_
       THEN /\ workers_' = [workers_ EXCEPT ![w] = [at |-> "exited", task |-> 0]]
            /\ UNCHANGED tasks_
       ELSE /\ workers_' = [workers_ EXCEPT ![w] = [at |-> "run", task |-> Head(tasks_)]]
            /\ tasks_' = Tail(tasks_)
    /\ UNCHANGED <<stop_, stop_call, submitted, rejected, executed, pendingAtStop>>
    /\ UNCHANGED <<state_, paused_, pc, local, last_results_, nFrames, updateLog, storeLog, callbackLog>>
    /\ UNCHANGED <<trackerVars, historyVars, analyzerVars, assocVars, llmVars, videoVars, lifeVars>>

\* worker loop, the block under queue_mutex_: wait until stop_ or a task is
\* queued; return when stop_ and the queue is empty, else take the front task
WorkerTake(w) ==
    /\ workers_[w].at = "wait"
    /\ stop_ \/ tasks_ # <<>>
    /\ IF stop_ /\ tasks_ = <<>>
       THEN /\ workers_' = [workers_ EXCEPT ![w] = [at |-> "exited", task |-> 0]]
            /\ UNCHANGED tasks_
       ELSE /\ workers_' = [workers_ EXCEPT ![w] = [at |-> "run", task |-> Head(tasks_)]]
            /\ tasks_' = Tail(tasks_)
    /\ UNCHANGED <<stop_, stop_call, submitted, rejected, executed, pendingAtStop>>
    /\ UNCHANGED <<state_, paused_, pc, local, last_results_, nFrames, updateLog, storeLog, callbackLog>>
    /\ UNCHANGED <<trackerVars, historyVars, analyzerVars, assocVars, llmVars, videoVars, lifeVars>>

\* worker loop, task(): the task runs, the worker goes back to the wait
WorkerRun(w) ==
    /\ workers_[w].at = "run"
    /\ executed' = [executed EXCEPT ![workers_[w].task] = @ + 1]
    /\ workers_' = [workers_ EXCEPT ![w] = [at |-> "wait", task |-> 0]]
    /\ UNCHANGED <<stop_, stop_call, submitted, rejected, pendingAtStop>>
    /\ UNCHANGED <<systemVars, trackerVars, historyVars, analyzerVars, assocVars, llmVars, videoVars, lifeVars>>

\* stop(), first block: stop_ = true under queue_mutex_, then notify_all
StopBegin ==
    /\ stop_call.at = "none"
    /\ stop_' = TRUE
    /\ stop_call' = [at |-> "joining", worker |-> 1]
    /\ pendingAtStop' = Len(tasks_) + Cardinality(Running)
    /\ UNCHANGED <<workers_, submitted, rejected, executed>>
    /\ UNCHANGED <<systemVars, trackerVars, historyVars, analyzerVars, assocVars, llmVars, videoVars, lifeVars>>

\* stop(), the join loop: join() returns when the worker has left its loop;
\* after the last join workers_ is cleared and stop() returns
StopJoin ==
    /\ stop_call.at = "joining"
    /\ workers_[stop_call.worker].at = "exited"
    /\ workers_' = [workers_ EXCEPT ![stop_call.worker] = [at |-> "joined", task |-> 0]]
    /\ stop_call' = IF stop_call.worker = NumWorkers
                    THEN [at |-> "returned", worker |-> 0]
                    ELSE [at |-> "joining", worker |-> stop_call.worker + 1]
    /\ UNCHANGED <<stop_, submitted, rejected, executed, pendingAtStop>>
    /\ UNCHANGED <<systemVars, trackerVars, historyVars, analyzerVars, assocVars, llmVars, videoVars, lifeVars>>

----------------------------------------------------------------------------
(* VideoProcessor::initialize opening the source (object_tracker.cpp        *)
(* 371..379, 584..625; the same loop is in llm_enhancer.cpp 372..412).      *)
(* Time is in whole seconds on the steady clock, as duration_cast<seconds>  *)
(* reports it.                                                              *)

\* VideoSourceConfig as declared: 60 s timeout, 5 s interval, 12 attempts
DefaultVideoConfig ==
    [wait_for_device        |-> TRUE,
     connection_timeout_sec |-> 60,
     retry_interval_sec     |-> 5,
     max_retry_attempts     |-> 12]

\* the configurations initialize() is called with
VideoConfigs ==
    {[wait_for_device        |-> wait,
      connection_timeout_sec |-> timeout,
      retry_interval_sec     |-> interval,
      max_retry_attempts     |-> attempts] :
        wait \in BOOLEAN, timeout \in {2, 5}, interval \in {1, 3}, attempts \in {1, 3}}

\* seconds one openVideoSource() call takes, and seconds sleep_for may
\* sleep beyond the interval
OpenDurations == {0, 2}
Oversleep == {0, 1}

\* a constructed VideoProcessor, initialize() not called
VideoIdle ==
    /\ video_config_ = DefaultVideoConfig
    /\ video_pc = "idle"
    /\ attempt = 0
    /\ elapsed = 0
    /\ attempt_starts = <<>>
    /\ open_result = "none"

\* initialize(config, ...) up to the loop of openVideoSourceWithRetry:
\* config_ = config; without wait_for_device one openVideoSource() call,
\* else start_time = now and attempt = 0
InitializeVideo(config) ==
    /\ video_pc = "idle"
    /\ video_config_' = config
    /\ video_pc' = IF config.wait_for_device THEN "loop" ELSE "single"
    /\ attempt' = 0
    /\ elapsed' = 0
    /\ attempt_starts' = IF config.wait_for_device THEN <<>>
                         ELSE <<[at |-> 0, ok |-> "pending"]>>
    /\ UNCHANGED open_result
    /\ UNCHANGED <<trackerVars, historyVars, analyzerVars, systemVars, assocVars, llmVars, poolVars, lifeVars>>

\* while (attempt < max_retry_attempts) { attempt++; ... openVideoSource()
LoopTest ==
    /\ video_pc = "loop"
    /\ IF attempt < video_config_.max_retry_attempts
       THEN /\ attempt' = attempt + 1
            /\ attempt_starts' = Append(attempt_starts, [at |-> elapsed, ok |-> "pending"])
            /\ video_pc' = "open"
            /\ UNCHANGED open_result
       ELSE /\ video_pc' = "done"
            /\ open_result' = "false"
            /\ UNCHANGED <<attempt, attempt_starts>>
    /\ UNCHANGED <<video_config_, elapsed>>
    /\ UNCHANGED <<trackerVars, historyVars, analyzerVars, systemVars, assocVars, llmVars, poolVars, lifeVars>>

\* openVideoSource() returns ok after duration seconds: success returns true
\* at once; a failure returns false without wait_for_device, else goes on to
\* the timeout test
OpenVideoSource(ok, duration) ==
    /\ video_pc \in {"open", "single"}
    /\ elapsed' = elapsed + duration
    /\ attempt_starts' = [attempt_starts EXCEPT ![Len(attempt_starts)].ok =
                            IF ok THEN "opened" ELSE "failed"]
    /\ IF ok \/ video_pc = "single"
       THEN /\ video_pc' = "done"
            /\ open_result' = IF ok THEN "true" ELSE "false"
       ELSE /\ video_pc' = "check"
            /\ UNCHANGED open_result
    /\ UNCHANGED <<video_config_, attempt>>
    /\ UNCHANGED <<trackerVars, historyVars, analyzerVars, systemVars, assocVars, llmVars, poolVars, lifeVars>>

\* if (elapsed >= connection_timeout_sec) break; and the test before the sleep
CheckTimeout ==
    /\ video_pc = "check"
    /\ IF elapsed >= video_config_.connection_timeout_sec
       THEN /\ video_pc' = "done"
            /\ open_result' = "false"
       ELSE /\ video_pc' = IF attempt < video_config_.max_retry_attempts THEN "sleep" ELSE "loop"
            /\ UNCHANGED open_result
    /\ UNCHANGED <<video_config_, attempt, elapsed, attempt_starts>>
    /\ UNCHANGED <<trackerVars, historyVars, analyzerVars, systemVars, assocVars, llmVars, poolVars, lifeVars>>

\* sleep_for(retry_interval_sec), then back to the loop test
Sleep(extra) ==
    /\ video_pc = "sleep"
    /\ elapsed' = elapsed + video_config_.retry_interval_sec + extra
    /\ video_pc' = "loop"
    /\ UNCHANGED <<video_config_, attempt, attempt_starts, open_result>>
    /\ UNCHANGED <<trackerVars, historyVars, analyzerVars, systemVars, assocVars, llmVars, poolVars, lifeVars>>

----------------------------------------------------------------------------
(* Lifecycle of VehiclePerceptionSystem (vehicle_perception_system.cpp):    *)
(* initialize, start, stop, pause, resume and updateConfig are called by    *)
(* the control thread (thread 1), step by step at the accesses to state_,   *)
(* paused_, callback_mutex_, the video processor and the pool; a second     *)
(* thread calls start, pause or resume while initialize runs.  The pool     *)
(* workers run processFrame, of which the entry (248-256) is modelled step  *)
(* by step and the rest as processing followed by the result callback.      *)

Callers == {1, 2}

\* a calling thread that has made no call
NoCallYet == [op |-> "none", at |-> "idle", seen |-> "NONE", target |-> "NONE",
              then |-> "none", success |-> FALSE]

\* the system as constructed: state STOPPED, no module created.  The workers
\* of the pool that initialize creates find no task before a frame arrives.
LifeIdle ==
    /\ ctl = [c \in Callers |-> NoCallYet]
    /\ ret = [c \in Callers |-> "none"]
    /\ video = [opened |-> FALSE, processing |-> FALSE]
    /\ callback_mutex_ = 0
    /\ nCalls = 0

\* what the lifecycle steps leave alone
LifeRest ==
    UNCHANGED <<local, last_results_, updateLog, storeLog, callbackLog,
                workers_, stop_call, submitted, rejected, executed, pendingAtStop,
                trackerVars, historyVars, analyzerVars, assocVars, llmVars, videoVars>>

\* thread c may begin a call: it is in none, and the control thread begins
\* one only when the second thread is in none
MayCall(c) ==
    /\ nCalls < MaxCalls
    /\ ctl[c].at \in {"idle", "returned"}
    /\ c = 1 => /\ ctl[1].op # "none"
                /\ ctl[2].at \in {"idle", "returned"}
    /\ c = 2 => ctl[1].op = "initialize" /\ ctl[1].at # "returned"

\* thread c is at label at; the call goes on at label next
GoOn(c, next) ==
    /\ ctl' = [ctl EXCEPT ![c].at = next]
    /\ UNCHANGED ret

\* the call of thread c returns value
ReturnFrom(c, value) ==
    /\ ctl' = [ctl EXCEPT ![c].at = "returned"]
    /\ ret' = [ret EXCEPT ![c] = value]

\* the call goes on with setState(new_state) and after it at label then
CallSetState(c, new_state, then) ==
    /\ ctl' = [ctl EXCEPT ![c].at = "store", ![c].target = new_state, ![c].then = then]
    /\ UNCHANGED ret

\* thread c enters op, whose guard reads state_
Enter(c, op, at, success) ==
    /\ ctl' = [ctl EXCEPT ![c] = [op |-> op, at |-> at, seen |-> state_, target |-> "NONE",
                                  then |-> "none", success |-> success]]
    /\ ret' = [ret EXCEPT ![c] = IF at = "returned" THEN (IF op = "start" THEN "false" ELSE "void")
                                 ELSE "none"]
    /\ nCalls' = nCalls + 1

\* setState, first statement: state_ = new_state
StoreState(c) ==
    /\ ctl[c].at = "store"
    /\ state_' = ctl[c].target
    /\ GoOn(c, "callback")
    /\ UNCHANGED <<paused_, tasks_, pc, nFrames, stop_, video, callback_mutex_, nCalls>>
    /\ LifeRest

\* setState, the rest: lock callback_mutex_, state_callback_, unlock; the
\* caller goes on, or returns when setState was its last statement
StateCallback(c) ==
    /\ ctl[c].at = "callback"
    /\ callback_mutex_ = 0
    /\ CASE ctl[c].then = "return_true" -> ReturnFrom(c, "true")
         [] ctl[c].then = "return_false" -> ReturnFrom(c, "false")
         [] ctl[c].then = "return_void" -> ReturnFrom(c, "void")
         [] OTHER -> GoOn(c, ctl[c].then)
    /\ UNCHANGED <<state_, paused_, tasks_, pc, nFrames, stop_, video, callback_mutex_, nCalls>>
    /\ LifeRest

\* initialize(config) as the first call of the control thread:
\* setState(INITIALIZING) stores the state
SystemInitialize(success) ==
    /\ nCalls < MaxCalls
    /\ ctl[1].op = "none"
    /\ state_' = "INITIALIZING"
    /\ ctl' = [ctl EXCEPT ![1] = [op |-> "initialize", at |-> "callback", seen |-> state_,
                                  target |-> "INITIALIZING", then |-> "modules",
                                  success |-> success]]
    /\ ret' = [ret EXCEPT ![1] = "none"]
    /\ nCalls' = nCalls + 1
    /\ UNCHANGED <<paused_, tasks_, pc, nFrames, stop_, video, callback_mutex_>>
    /\ LifeRest

\* initialize: config_ = config, the pool of 4 workers, initializeModules();
\* the video source is opened when the video processor initializes
InitializeModules(c) ==
    /\ ctl[c].op = "initialize" /\ ctl[c].at = "modules"
    /\ video' = [opened |-> ctl[c].success, processing |-> FALSE]
    /\ IF ctl[c].success THEN CallSetState(c, "STOPPED", "return_true")
       ELSE CallSetState(c, "ERROR", "return_false")
    /\ UNCHANGED <<state_, paused_, tasks_, pc, nFrames, stop_, callback_mutex_, nCalls>>
    /\ LifeRest

\* variant: start() is also let through from ERROR
Start_FromError(c) ==
    /\ MayCall(c)
    /\ IF state_ \in {"STOPPED", "PAUSED", "ERROR"}
       THEN Enter(c, "start", "setRunning", FALSE)
       ELSE Enter(c, "start", "returned", FALSE)
    /\ UNCHANGED <<state_, paused_, tasks_, pc, nFrames, stop_, video, callback_mutex_>>
    /\ LifeRest

\* start(): returns false unless state_ is STOPPED or PAUSED
Start(c) ==
    /\ MayCall(c)
    /\ IF state_ \in {"STOPPED", "PAUSED"}
       THEN Enter(c, "start", "setRunning", FALSE)
       ELSE Enter(c, "start", "returned", FALSE)
    /\ UNCHANGED <<state_, paused_, tasks_, pc, nFrames, stop_, video, callback_mutex_>>
    /\ LifeRest

\* start: setState(RUNNING)
StartSetRunning(c) ==
    /\ ctl[c].op = "start" /\ ctl[c].at = "setRunning"
    /\ CallSetState(c, "RUNNING", "unpause")
    /\ UNCHANGED <<state_, paused_, tasks_, pc, nFrames, stop_, video, callback_mutex_, nCalls>>
    /\ LifeRest

\* start: paused_ = false
StartUnpause(c) ==
    /\ ctl[c].op = "start" /\ ctl[c].at = "unpause"
    /\ paused_' = FALSE
    /\ GoOn(c, "videoStart")
    /\ UNCHANGED <<state_, tasks_, pc, nFrames, stop_, video, callback_mutex_, nCalls>>
    /\ LifeRest

\* start: video_processor_->start() is true when the processor is processing,
\* false when the source is not opened, and otherwise starts the processing
\* thread; on false the call goes on with setState(ERROR)
StartVideo(c) ==
    /\ ctl[c].op = "start" /\ ctl[c].at = "videoStart"
    /\ IF video.processing \/ video.opened
       THEN /\ video' = [video EXCEPT !.processing = TRUE]
            /\ ctl' = [ctl EXCEPT ![c].at = "returned", ![c].success = TRUE]
            /\ ret' = [ret EXCEPT ![c] = "true"]
       ELSE /\ UNCHANGED video
            /\ CallSetState(c, "ERROR", "return_false")
    /\ UNCHANGED <<state_, paused_, tasks_, pc, nFrames, stop_, callback_mutex_, nCalls>>
    /\ LifeRest

\* pause(): returns unless state_ is RUNNING
Pause(c) ==
    /\ MayCall(c)
    /\ IF state_ = "RUNNING"
       THEN Enter(c, "pause", "setPaused", FALSE)
       ELSE Enter(c, "pause", "returned", FALSE)
    /\ UNCHANGED <<state_, paused_, tasks_, pc, nFrames, stop_, video, callback_mutex_>>
    /\ LifeRest

\* pause: paused_ = true, then setState(PAUSED)
PauseSetFlag(c) ==
    /\ ctl[c].op = "pause" /\ ctl[c].at = "setPaused"
    /\ paused_' = TRUE
    /\ CallSetState(c, "PAUSED", "return_void")
    /\ UNCHANGED <<state_, tasks_, pc, nFrames, stop_, video, callback_mutex_, nCalls>>
    /\ LifeRest

\* resume(): returns unless state_ is PAUSED
Resume(c) ==
    /\ MayCall(c)
    /\ IF state_ = "PAUSED"
       THEN Enter(c, "resume", "clearPaused", FALSE)
       ELSE Enter(c, "resume", "returned", FALSE)
    /\ UNCHANGED <<state_, paused_, tasks_, pc, nFrames, stop_, video, callback_mutex_>>
    /\ LifeRest

\* resume: paused_ = false, then setState(RUNNING)
ResumeClearFlag(c) ==
    /\ ctl[c].op = "resume" /\ ctl[c].at = "clearPaused"
    /\ paused_' = FALSE
    /\ CallSetState(c, "RUNNING", "notify")
    /\ UNCHANGED <<state_, tasks_, pc, nFrames, stop_, video, callback_mutex_, nCalls>>
    /\ LifeRest

\* resume: pause_cv_.notify_all() wakes the workers blocked in the wait, which
\* test the predicate again
ResumeNotify(c) ==
    /\ ctl[c].op = "resume" /\ ctl[c].at = "notify"
    /\ pc' = [w \in Workers |-> IF pc[w] = "blocked" THEN "test" ELSE pc[w]]
    /\ ReturnFrom(c, "void")
    /\ UNCHANGED <<state_, paused_, tasks_, nFrames, stop_, video, callback_mutex_, nCalls>>
    /\ LifeRest

\* stop(): returns when state_ is STOPPED, else setState(STOPPED)
Stop(c) ==
    /\ c = 1
    /\ MayCall(c)
    /\ ctl[c].op = "initialize" => ret[c] = "true"
    /\ IF state_ = "STOPPED"
       THEN Enter(c, "stop", "returned", FALSE)
       ELSE /\ ctl' = [ctl EXCEPT ![c] = [op |-> "stop", at |-> "store", seen |-> state_,
                                          target |-> "STOPPED", then |-> "flags",
                                          success |-> FALSE]]
            /\ ret' = [ret EXCEPT ![c] = "none"]
            /\ nCalls' = nCalls + 1
    /\ UNCHANGED <<state_, paused_, tasks_, pc, nFrames, stop_, video, callback_mutex_>>
    /\ LifeRest

\* stop: running_ = false, paused_ = false
StopClearFlags(c) ==
    /\ ctl[c].op = "stop" /\ ctl[c].at = "flags"
    /\ paused_' = FALSE
    /\ GoOn(c, "videoStop")
    /\ UNCHANGED <<state_, tasks_, pc, nFrames, stop_, video, callback_mutex_, nCalls>>
    /\ LifeRest

\* stop: video_processor_->stop() joins the processing thread and releases
\* the source
StopVideo(c) ==
    /\ ctl[c].op = "stop" /\ ctl[c].at = "videoStop"
    /\ video' = IF video.processing THEN [opened |-> FALSE, processing |-> FALSE] ELSE video
    /\ GoOn(c, "poolStop")
    /\ UNCHANGED <<state_, paused_, tasks_, pc, nFrames, stop_, callback_mutex_, nCalls>>
    /\ LifeRest

\* stop: thread_pool_->stop() sets stop_ and notifies the workers waiting for
\* a task
StopPool(c) ==
    /\ ctl[c].op = "stop" /\ ctl[c].at = "poolStop"
    /\ stop_' = TRUE
    /\ GoOn(c, "join")
    /\ UNCHANGED <<state_, paused_, tasks_, pc, nFrames, video, callback_mutex_, nCalls>>
    /\ LifeRest

\* stop: thread_pool_->stop() has joined every worker; thread_pool_->start()
\* clears stop_ and creates the workers anew; stop() returns
StopJoinAndRestart(c) ==
    /\ ctl[c].op = "stop" /\ ctl[c].at = "join"
    /\ \A w \in Workers : pc[w] = "exited"
    /\ stop_' = FALSE
    /\ pc' = [w \in Workers |-> "wait"]
    /\ ReturnFrom(c, "void")
    /\ UNCHANGED <<state_, paused_, tasks_, nFrames, video, callback_mutex_, nCalls>>
    /\ LifeRest

\* updateConfig(config): lock_guard lock(callback_mutex_), old_state = state_;
\* success is what initializeModules() will return for config
UpdateConfig(c, success) ==
    /\ c = 1
    /\ MayCall(c)
    /\ callback_mutex_ = 0
    /\ callback_mutex_' = c
    /\ Enter(c, "updateConfig", IF state_ = "RUNNING" THEN "cfgPause" ELSE "cfgModules", success)
    /\ UNCHANGED <<state_, paused_, tasks_, pc, nFrames, stop_, video>>
    /\ LifeRest

\* updateConfig: if (was_running) pause(), which returns unless state_ is
\* RUNNING, and else sets paused_ and calls setState(PAUSED)
ConfigPause(c) ==
    /\ ctl[c].op = "updateConfig" /\ ctl[c].at = "cfgPause"
    /\ IF state_ = "RUNNING"
       THEN /\ paused_' = TRUE
            /\ CallSetState(c, "PAUSED", "cfgModules")
       ELSE /\ UNCHANGED paused_
            /\ GoOn(c, "cfgModules")
    /\ UNCHANGED <<state_, tasks_, pc, nFrames, stop_, video, callback_mutex_, nCalls>>
    /\ LifeRest

\* setState called with callback_mutex_ held by the calling thread: locking a
\* std::mutex the thread owns is undefined.  The thread blocks for ever, or
\* lock() throws std::system_error, which leaves updateConfig and releases
\* its lock_guard, or the lock is taken once more and setState goes on.
RelockCallbackMutex(c, outcome) ==
    /\ ctl[c].at = "callback"
    /\ callback_mutex_ = c
    /\ CASE outcome = "deadlock" -> GoOn(c, "deadlocked") /\ UNCHANGED callback_mutex_
         [] outcome = "system_error" -> ReturnFrom(c, "threw") /\ callback_mutex_' = 0
         [] outcome = "reentered" -> GoOn(c, ctl[c].then) /\ UNCHANGED callback_mutex_
    /\ UNCHANGED <<state_, paused_, tasks_, pc, nFrames, stop_, video, nCalls>>
    /\ LifeRest

\* updateConfig: config_ = config, success = initializeModules(), which
\* replaces the video processor by a new one that is not started; without
\* if (was_running && success) the call unlocks and returns success
ConfigModules(c) ==
    /\ ctl[c].op = "updateConfig" /\ ctl[c].at = "cfgModules"
    /\ video' = [opened |-> ctl[c].success, processing |-> FALSE]
    /\ IF ctl[c].seen = "RUNNING" /\ ctl[c].success
       THEN GoOn(c, "cfgResume") /\ UNCHANGED callback_mutex_
       ELSE /\ ReturnFrom(c, IF ctl[c].success THEN "true" ELSE "false")
            /\ callback_mutex_' = 0
    /\ UNCHANGED <<state_, paused_, tasks_, pc, nFrames, stop_, nCalls>>
    /\ LifeRest

\* updateConfig: resume(), which returns unless state_ is PAUSED, and else
\* clears paused_ and calls setState(RUNNING)
ConfigResume(c) ==
    /\ ctl[c].op = "updateConfig" /\ ctl[c].at = "cfgResume"
    /\ IF state_ = "PAUSED"
       THEN /\ paused_' = FALSE
            /\ CallSetState(c, "RUNNING", "cfgNotify")
       ELSE /\ UNCHANGED paused_
            /\ GoOn(c, "cfgReturn")
    /\ UNCHANGED <<state_, tasks_, pc, nFrames, stop_, video, callback_mutex_, nCalls>>
    /\ LifeRest

\* updateConfig: resume() ends with pause_cv_.notify_all()
ConfigNotify(c) ==
    /\ ctl[c].op = "updateConfig" /\ ctl[c].at = "cfgNotify"
    /\ pc' = [w \in Workers |-> IF pc[w] = "blocked" THEN "test" ELSE pc[w]]
    /\ GoOn(c, "cfgReturn")
    /\ UNCHANGED <<state_, paused_, tasks_, nFrames, stop_, video, callback_mutex_, nCalls>>
    /\ LifeRest

\* updateConfig: return success, the lock_guard unlocks
ConfigReturn(c) ==
    /\ ctl[c].op = "updateConfig" /\ ctl[c].at = "cfgReturn"
    /\ callback_mutex_' = 0
    /\ ReturnFrom(c, "true")
    /\ UNCHANGED <<state_, paused_, tasks_, pc, nFrames, stop_, video, nCalls>>
    /\ LifeRest

\* frame_callback on the processing thread of the video processor: the frame
\* is submitted when the state is RUNNING and paused_ is false
FrameCallback ==
    /\ video.processing
    /\ nFrames < MaxLifeFrames
    /\ nFrames' = nFrames + 1
    /\ tasks_' = IF state_ = "RUNNING" /\ ~paused_ THEN Append(tasks_, nFrames + 1) ELSE tasks_
    /\ UNCHANGED <<state_, paused_, pc, stop_, lifeVars>>
    /\ LifeRest

\* worker loop: a waiting worker takes the front task (the waiting worker
\* with the lowest number takes it) and calls processFrame
WorkerTakesFrame(w) ==
    /\ pc[w] = "wait"
    /\ \A v \in Workers : v < w => pc[v] # "wait"
    /\ tasks_ # <<>>
    /\ tasks_' = Tail(tasks_)
    /\ pc' = [pc EXCEPT ![w] = "entry"]
    /\ UNCHANGED <<state_, paused_, nFrames, stop_, lifeVars>>
    /\ LifeRest

\* worker loop: stop_ && tasks_.empty(): the worker thread returns
WorkerExits(w) ==
    /\ pc[w] = "wait"
    /\ stop_ /\ tasks_ = <<>>
    /\ pc' = [pc EXCEPT ![w] = "exited"]
    /\ UNCHANGED <<state_, paused_, tasks_, nFrames, stop_, lifeVars>>
    /\ LifeRest

\* processFrame: if (paused_)
EnterProcessFrame(w) ==
    /\ pc[w] = "entry"
    /\ pc' = [pc EXCEPT ![w] = IF paused_ THEN "test" ELSE "body"]
    /\ UNCHANGED <<state_, paused_, tasks_, nFrames, stop_, lifeVars>>
    /\ LifeRest

\* pause_cv_.wait(lock, pred): the predicate !paused_ || state_ != RUNNING is
\* tested under pause_mutex_
PauseWaitTest(w) ==
    /\ pc[w] = "test"
    /\ pc' = [pc EXCEPT ![w] = IF ~paused_ \/ state_ # "RUNNING" THEN "woken" ELSE "blocking"]
    /\ UNCHANGED <<state_, paused_, tasks_, nFrames, stop_, lifeVars>>
    /\ LifeRest

\* pause_cv_.wait: the predicate was false, the worker blocks on the
\* condition variable
PauseWaitBlock(w) ==
    /\ pc[w] = "blocking"
    /\ pc' = [pc EXCEPT ![w] = "blocked"]
    /\ UNCHANGED <<state_, paused_, tasks_, nFrames, stop_, lifeVars>>
    /\ LifeRest

\* a spurious wakeup of a blocked worker, which the condition variable is
\* allowed but not obliged to produce
SpuriousWakeup(w) ==
    /\ pc[w] = "blocked"
    /\ pc' = [pc EXCEPT ![w] = "test"]
    /\ UNCHANGED <<state_, paused_, tasks_, nFrames, stop_, lifeVars>>
    /\ LifeRest

\* processFrame after the wait: if (state_ != RUNNING) return
AfterPauseWait(w) ==
    /\ pc[w] = "woken"
    /\ pc' = [pc EXCEPT ![w] = IF state_ # "RUNNING" THEN "wait" ELSE "body"]
    /\ UNCHANGED <<state_, paused_, tasks_, nFrames, stop_, lifeVars>>
    /\ LifeRest

\* processFrame: detection, tracking, analysis, result processing, storing
ProcessSteps(w) ==
    /\ pc[w] = "body"
    /\ pc' = [pc EXCEPT ![w] = "result"]
    /\ UNCHANGED <<state_, paused_, tasks_, nFrames, stop_, lifeVars>>
    /\ LifeRest

\* processFrame: result_callback_ under callback_mutex_; processFrame returns
DeliverResult(w) ==
    /\ pc[w] = "result"
    /\ callback_mutex_ = 0
    /\ pc' = [pc EXCEPT ![w] = "wait"]
    /\ UNCHANGED <<state_, paused_, tasks_, nFrames, stop_, lifeVars>>
    /\ LifeRest

----------------------------------------------------------------------------
(* Specifications *)

\* the tracker driven through its interface
Init == TrackerInit /\ AnalyzerIdle /\ SystemIdle /\ AssocIdle /\ LlmIdle /\ PoolIdle /\ VideoIdle /\ LifeIdle

Next ==
    \/ \E detections \in DetectionLists : Update(detections)
    \/ \E max_age \in MaxAgeVals : SetMaxAge(max_age)
    \/ \E min_hits \in MinHitsVals : SetMinHits(min_hits)
    \/ Reset
    \/ \E cfg \in TrackerConfigs : Initialize(cfg)

Spec == Init /\ [][Next]_vars

\* the behaviour analyzer driven through its interface
InitRisk == TrackerIdle /\ AnalyzerInit /\ SystemIdle /\ AssocIdle /\ LlmIdle /\ PoolIdle /\ VideoIdle /\ LifeIdle

NextRisk ==
    \/ \E speed_kmh \in VehicleSpeeds : SetVehicleSpeed(speed_kmh)
    \/ Analyze

SpecRisk == InitRisk /\ [][NextRisk]_vars

\* the running system processing the frames of the video thread
InitSys == TrackerIdle /\ AnalyzerIdle /\ SystemRunning /\ AssocIdle /\ LlmIdle /\ PoolIdle /\ VideoIdle /\ LifeIdle

NextSys ==
    \/ DeliverFrame
    \/ \E w \in Workers : TakeTask(w)
    \/ \E w \in Workers : \E detections \in FrameDetections : Detect(w, detections)
    \/ \E w \in Workers : BeginUpdate(w)
    \/ \E w \in Workers : EndUpdate(w)
    \/ \E w \in Workers : AnalyzeFrame(w)
    \/ \E w \in Workers : StoreResults(w)
    \/ \E w \in Workers : ResultCallback(w)

SpecSys == InitSys /\ [][NextSys]_vars

\* analysis followed by the LLM enhancement
InitLlm == TrackerIdle /\ LlmAnalyzerInit /\ SystemIdle /\ AssocIdle /\ LlmInit /\ PoolIdle /\ VideoIdle /\ LifeIdle

NextLlm ==
    \/ \E speed_kmh \in VehicleSpeeds : SetVehicleSpeed(speed_kmh)
    \/ Analyze
    \/ EnhanceAnalysis

SpecLlm == InitLlm /\ [][NextLlm]_vars

\* the pool on its own
InitPool == TrackerIdle /\ AnalyzerIdle /\ SystemIdle /\ AssocIdle /\ LlmIdle /\ PoolIdle /\ VideoIdle /\ LifeIdle

NextPool ==
    \/ Submit
    \/ \E w \in Workers : WorkerTake(w)
    \/ \E w \in Workers : WorkerRun(w)
    \/ StopBegin
    \/ StopJoin

SpecPool == InitPool /\ [][NextPool]_vars

\* opening the video source
InitVideo == TrackerIdle /\ AnalyzerIdle /\ SystemIdle /\ AssocIdle /\ LlmIdle /\ PoolIdle /\ VideoIdle /\ LifeIdle

NextVideo ==
    \/ \E config \in VideoConfigs : InitializeVideo(config)
    \/ LoopTest
    \/ \E ok \in BOOLEAN : \E duration \in OpenDurations : OpenVideoSource(ok, duration)
    \/ CheckTimeout
    \/ \E extra \in Oversleep : Sleep(extra)

SpecVideo == InitVideo /\ [][NextVideo]_vars

\* the tracker holding a track that is 49 or 50 frames old
InitLong == LongTrackInit /\ AnalyzerIdle /\ SystemIdle /\ AssocIdle /\ LlmIdle /\ PoolIdle /\ VideoIdle /\ LifeIdle

NextLong == LongTrackUpdate

SpecLong == InitLong /\ [][NextLong]_vars

\* tracking and analysis of the frames of one cyclist
InitPipe == TrackerInit /\ AnalyzerIdle /\ SystemIdle /\ AssocIdle /\ LlmIdle /\ PoolIdle /\ VideoIdle /\ LifeIdle

NextPipe ==
    \/ \E detections \in PipeDetectionLists : PipeUpdate(detections)
    \/ AnalyzeTracks

SpecPipe == InitPipe /\ [][NextPipe]_vars

\* the lifecycle calls without updateConfig
InitLife == TrackerIdle /\ AnalyzerIdle /\ SystemIdle /\ AssocIdle /\ LlmIdle /\ PoolIdle /\ VideoIdle /\ LifeIdle

\* a step of a call thread c is in
CallStep(c) ==
    \/ StoreState(c)
    \/ StateCallback(c)
    \/ InitializeModules(c)
    \/ StartSetRunning(c)
    \/ StartUnpause(c)
    \/ StartVideo(c)
    \/ PauseSetFlag(c)
    \/ ResumeClearFlag(c)
    \/ ResumeNotify(c)
    \/ StopClearFlags(c)
    \/ StopVideo(c)
    \/ StopPool(c)
    \/ StopJoinAndRestart(c)

\* a step of pool worker w that does not depend on a spurious wakeup
WorkerStep(w) ==
    \/ WorkerTakesFrame(w)
    \/ WorkerExits(w)
    \/ EnterProcessFrame(w)
    \/ PauseWaitTest(w)
    \/ PauseWaitBlock(w)
    \/ AfterPauseWait(w)
    \/ ProcessSteps(w)
    \/ DeliverResult(w)

NextLife ==
    \/ \E success \in BOOLEAN : SystemInitialize(success)
    \/ \E c \in Callers : Start(c)
    \/ \E c \in Callers : Pause(c)
    \/ \E c \in Callers : Resume(c)
    \/ \E c \in Callers : Stop(c)
    \/ \E c \in Callers : CallStep(c)
    \/ FrameCallback
    \/ \E w \in Workers : WorkerStep(w)
    \/ \E w \in Workers : SpuriousWakeup(w)

SpecLife == InitLife /\ [][NextLife]_vars

\* the same under fair scheduling: a thread that can take a step of the call
\* or of the worker loop it is in eventually takes it; which calls are made,
\* which frames arrive and whether a wait wakes up spuriously is left open
SpecLifeFair ==
    /\ SpecLife
    /\ \A c \in Callers : WF_vars(CallStep(c))
    /\ \A w \in Workers : WF_vars(WorkerStep(w))

\* a step of an updateConfig call thread c is in
ConfigStep(c) ==
    \/ ConfigPause(c)
    \/ \E outcome \in {"deadlock", "system_error", "reentered"} : RelockCallbackMutex(c, outcome)
    \/ ConfigModules(c)
    \/ ConfigResume(c)
    \/ ConfigNotify(c)
    \/ ConfigReturn(c)

\* the lifecycle calls with updateConfig, under fair scheduling
NextConfig ==
    \/ NextLife
    \/ \E c \in Callers : \E success \in BOOLEAN : UpdateConfig(c, success)
    \/ \E c \in Callers : ConfigStep(c)

SpecConfig ==
    /\ InitLife /\ [][NextConfig]_vars
    /\ \A c \in Callers : WF_vars(CallStep(c) \/ ConfigStep(c))
    /\ \A w \in Workers : WF_vars(WorkerStep(w))

\* the tracker with the default configuration on frames with gaps
InitMiss == TrackerIdle /\ AnalyzerIdle /\ SystemIdle /\ AssocIdle /\ LlmIdle /\ PoolIdle /\ VideoIdle /\ LifeIdle

NextMiss == MissUpdate

SpecMiss == InitMiss /\ [][NextMiss]_vars

\* the analyzer called with two tracks at different distances
InitPair == TrackerIdle /\ PairAnalyzerInit /\ SystemIdle /\ AssocIdle /\ LlmIdle /\ PoolIdle /\ VideoIdle /\ LifeIdle

NextPair ==
    \/ \E speed_kmh \in VehicleSpeeds : SetVehicleSpeed(speed_kmh)
    \/ Analyze

SpecPair == InitPair /\ [][NextPair]_vars

\* the association step called repeatedly on the same lists
InitAssoc == AssocInit /\ AnalyzerIdle /\ SystemIdle /\ LlmIdle /\ PoolIdle /\ VideoIdle /\ LifeIdle

NextAssoc == Associate

SpecAssoc == InitAssoc /\ [][NextAssoc]_vars

----------------------------------------------------------------------------
(* Properties of the tracker *)

TrackById(trks, id) == trks[CHOOSE i \in 1..Len(trks) : trks[i].track_id = id]

ReturnedIds == {confirmed_tracks[i].track_id : i \in 1..Len(confirmed_tracks)}

\* C1: between two reset()/initialize() calls the ids handed out by update()
\* are strictly increasing in creation order (hence pairwise distinct), the
\* ids of tracks that have left the live set included, and every live track
\* carries one of the ids handed out.
TrackIdsStrictlyIncreasing ==
    /\ \A i, j \in 1..Len(created) : i < j => created[i] < created[j]
    /\ \A i \in 1..Len(tracks_) : tracks_[i].track_id \in SeqToSet(created)

\* a track was created after an earlier one had already been removed
WitnessIdAfterRemoval ==
    \E i, j \in 1..Len(created) :
        /\ i < j
        /\ created[i] \notin LiveIds(tracks_)
        /\ created[j] \in LiveIds(tracks_)

\* C4: a track that is confirmed before a step and still live after it is
\* confirmed after it, whatever the step is (update, setMinHits, setMaxAge).
ConfirmationMonotone ==
    [][\A i \in 1..Len(tracks_) : \A j \in 1..Len(tracks_') :
          (tracks_[i].track_id = tracks_'[j].track_id /\ tracks_[i].is_confirmed)
              => tracks_'[j].is_confirmed]_vars

\* a confirmed track lived through an unmatched cycle and min_hits now lies
\* above its age
WitnessConfirmedBelowMinHits ==
    /\ lastOp = "update"
    /\ \E i \in 1..Len(tracks_) :
          /\ tracks_[i].is_confirmed
          /\ tracks_[i].age < config_.min_hits
          /\ tracks_[i].consecutive_misses >= 1
          /\ ~hist[tracks_[i].track_id].mhConst

\* C5: no live track, and no track in the list update() returned, has been
\* left unmatched by max_age + 1 consecutive update() calls under an
\* unchanged max_age >= 0.
ExpiryGuarantee ==
    config_.max_age >= 0 =>
        /\ \A i \in 1..Len(tracks_) :
              hist[tracks_[i].track_id].missRun < config_.max_age + 1
        /\ lastOp = "update" =>
              \A id \in ReturnedIds :
                  id \in LiveIds(tracks_) /\ hist[id].missRun < config_.max_age + 1

\* the last update() removed a confirmed track at its (max_age + 1)-th
\* consecutive unmatched cycle
WitnessExpiredAfterMisses ==
    /\ lastOp = "update"
    /\ \E e \in expired :
          /\ e.missRun = config_.max_age + 1
          /\ e.is_confirmed
          /\ e.track_id \notin LiveIds(tracks_)
          /\ e.track_id \notin ReturnedIds

\* C6 (as claimed): after every update(), a live track whose whole life ran
\* under one min_hits value is confirmed exactly when age >= min_hits.
ConfirmedIffAgeReached ==
    lastOp = "update" =>
        \A i \in 1..Len(tracks_) :
            hist[tracks_[i].track_id].mhConst =>
                (tracks_[i].is_confirmed <=> tracks_[i].age >= config_.min_hits)

\* C7 (as claimed): a track that becomes confirmed in a step has just
\* completed a run of min_hits consecutive cycles with a detection (the
\* creating detection counted), so detections before an unmatched cycle do
\* not count.
ConfirmedOnlyByConsecutiveMatches ==
    [][\A i \in 1..Len(tracks_) : \A j \in 1..Len(tracks_') :
          (/\ tracks_[i].track_id = tracks_'[j].track_id
           /\ ~tracks_[i].is_confirmed
           /\ tracks_'[j].is_confirmed)
              => hist'[tracks_'[j].track_id].streak >= config_.min_hits]_vars

\* C7 (amended): a tentative track becomes confirmed in a step exactly when the
\* step is an update() that matches it and the detections it has received in
\* its whole life (the creating one and every match, unmatched cycles in
\* between or not) number at least min_hits; a track is never confirmed by
\* the update() that creates it.
ConfirmedByTotalDetections ==
    [][\A j \in 1..Len(tracks_') :
          LET id == tracks_'[j].track_id
          IN  IF id \in LiveIds(tracks_) /\ nUpdates' = nUpdates
              THEN tracks_'[j].is_confirmed = TrackById(tracks_, id).is_confirmed
              ELSE IF id \in LiveIds(tracks_)
              THEN ~TrackById(tracks_, id).is_confirmed =>
                      (tracks_'[j].is_confirmed <=>
                          (/\ hist'[id].hits = hist[id].hits + 1
                           /\ hist'[id].hits >= config_.min_hits))
              ELSE ~tracks_'[j].is_confirmed]_vars

\* a track was confirmed by a match that followed an unmatched cycle: its
\* detections reach min_hits, its current run of consecutive ones does not
WitnessConfirmedAfterInterruption ==
    /\ lastOp = "update"
    /\ \E i \in 1..Len(tracks_) :
          LET h == hist[tracks_[i].track_id]
          IN  /\ tracks_[i].is_confirmed
              /\ h.mhConst
              /\ h.everMissed
              /\ h.hits = config_.min_hits
              /\ h.streak >= 1
              /\ h.streak < config_.min_hits

\* C8: with min_hits = m >= 2 unchanged during the life of a track that was
\* matched in every update() after the one that created it, the track is
\* missing from the lists returned by the first m-1 update() calls of its
\* life and is in the list returned by the m-th (same id, creation time
\* kept); on a fresh tracker fed one such object with m = 3 the first two
\* calls return nothing and the third returns exactly the track with id 1.
ConfirmedAtMinHitsThCall ==
    lastOp = "update" =>
        /\ \A i \in 1..Len(tracks_) :
              LET id == tracks_[i].track_id
                  h == hist[id]
              IN  (h.mhConst /\ ~h.everMissed /\ config_.min_hits >= 2) =>
                      /\ h.life < config_.min_hits => id \notin ReturnedIds
                      /\ h.life = config_.min_hits =>
                            \E k \in 1..Len(confirmed_tracks) :
                                /\ confirmed_tracks[k].track_id = id
                                /\ confirmed_tracks[k].first_seen = h.born
        /\ (config_.min_hits = 3 /\ soloRun \in {1, 2}) => confirmed_tracks = <<>>
        /\ (config_.min_hits = 3 /\ soloRun = 3) =>
              (Len(confirmed_tracks) = 1 /\ confirmed_tracks[1].track_id = 1)

\* the third update() of the one-object scenario with min_hits = 3 returned
\* the track
WitnessThirdCallConfirms ==
    /\ lastOp = "update"
    /\ config_.min_hits = 3
    /\ soloRun = 3
    /\ Len(confirmed_tracks) = 1
    /\ hist[1].life = 3 /\ hist[1].mhConst /\ ~hist[1].everMissed

\* C9: the list update() returns holds exactly the live confirmed tracks, in
\* live-set order and each once: nothing tentative, nothing removed by the
\* call, and no live confirmed track left out, unmatched ones included.
ReturnsExactlyConfirmedLive ==
    lastOp = "update" =>
        /\ \A k \in 1..Len(confirmed_tracks) :
              /\ confirmed_tracks[k].is_confirmed
              /\ \E i \in 1..Len(tracks_) : tracks_[i] = confirmed_tracks[k]
              /\ confirmed_tracks[k].track_id \notin {e.track_id : e \in expired}
        /\ \A i \in 1..Len(tracks_) :
              tracks_[i].is_confirmed =>
                  \E k \in 1..Len(confirmed_tracks) : confirmed_tracks[k] = tracks_[i]
        /\ \A k, l \in 1..Len(confirmed_tracks) :
              k < l => confirmed_tracks[k].track_id < confirmed_tracks[l].track_id

\* an update() returned a confirmed track it had not matched, kept a tentative
\* track out of the list and removed a track
WitnessReturnedUnmatchedConfirmed ==
    /\ lastOp = "update"
    /\ \E k \in 1..Len(confirmed_tracks) : confirmed_tracks[k].consecutive_misses >= 1
    /\ \E i \in 1..Len(tracks_) : ~tracks_[i].is_confirmed
    /\ expired # {}

\* ids of the live tracks that the last update() created
NewIds == {id \in LiveIds(tracks_) : hist[id].life = 1}

\* C15: an update() without detections creates no track and adds none to the
\* live set; after max_age + 1 consecutive update() calls without detections
\* (max_age >= 0 unchanged) the live set is empty, and it and the returned
\* list stay empty in every further such call.
EmptyUpdatesAgeOut ==
    /\ []((lastOp = "update" /\ config_.max_age >= 0 /\ emptyRun >= config_.max_age + 1)
             => (tracks_ = <<>> /\ confirmed_tracks = <<>>))
    /\ [][(nUpdates' = nUpdates + 1 /\ lastCall'.detections = <<>>)
             => /\ next_track_id_' = next_track_id_
                /\ created' = created
                /\ LiveIds(tracks_') \subseteq LiveIds(tracks_)]_vars

\* the second of two update() calls without detections, with max_age = 1,
\* removed the tracks that were left
WitnessAgedOutByEmptyUpdates ==
    /\ lastOp = "update"
    /\ config_.max_age = 1
    /\ emptyRun = 2
    /\ expired # {}
    /\ tracks_ = <<>>

\* C16: after reset() the live set is empty and the next id is 1, the first
\* track created since the tracker was last cleared has id 1, and reset()
\* leaves max_age, min_hits and iou_threshold as they were.
ResetRestartsIds ==
    /\ [](lastOp = "reset" => (tracks_ = <<>> /\ next_track_id_ = 1))
    /\ [](created # <<>> => created[1] = 1)
    /\ [][(lastOp # "reset" /\ lastOp' = "reset") => config_' = config_]_vars

\* reset() was called on a tracker whose last update() had returned tracks
WitnessResetAfterTracks ==
    /\ lastOp = "reset"
    /\ confirmed_tracks # <<>>
    /\ tracks_ = <<>>
    /\ next_track_id_ = 1

AssociationOneToOne ==
    lastOp = "update" =>
        LET m == lastCall.matches
            u == lastCall.unmatched_detections
            D == 1..Len(lastCall.detections)
        IN  /\ \A i \in 1..Len(m) :
                  m[i][1] \in 1..Len(lastCall.track_ids) /\ m[i][2] \in D
            /\ \A i, j \in 1..Len(m) :
                  i # j => (m[i][1] # m[j][1] /\ m[i][2] # m[j][2])
            /\ \A k, l \in 1..Len(u) : k # l => u[k] # u[l]
            /\ {m[i][2] : i \in 1..Len(m)} \cap SeqToSet(u) = {}
            /\ {m[i][2] : i \in 1..Len(m)} \cup SeqToSet(u) = D
            /\ config_.max_age >= 0 => Len(m) + Cardinality(NewIds) = Len(lastCall.detections)

\* two tracks overlapped the one detection of the frame above the threshold
\* and one of them was left unmatched
WitnessTwoTracksOneDetection ==
    /\ lastOp = "update"
    /\ lastCall.detections = <<DetLeft>>
    /\ Len(lastCall.track_ids) = 2
    /\ Len(lastCall.matches) = 1
    /\ \E i \in 1..Len(tracks_) :
          /\ tracks_[i].consecutive_misses >= 1
          /\ RatGT(calculateIOU(tracks_[i].detection.bbox, BoxLeft), config_.iou_threshold)

\* the ids of the tracks the last update() matched
MatchedIds(call) == {call.track_ids[call.matches[i][1]] : i \in 1..Len(call.matches)}

\* C25: across every update(), a live track matched or created in the call
\* has consecutive_misses 0 and any other live track one more than before;
\* a track leaves the live set exactly when it was unmatched and its count
\* exceeds max_age, so a track matched or created in the call is never
\* removed and no live track has more than max_age misses.
MissesCountedAndBounded ==
    [][(nUpdates' = nUpdates + 1) =>
          /\ \A id \in LiveIds(tracks_') :
                 TrackById(tracks_', id).consecutive_misses =
                     IF id \notin LiveIds(tracks_) \/ id \in MatchedIds(lastCall')
                     THEN 0
                     ELSE TrackById(tracks_, id).consecutive_misses + 1
          /\ \A id \in LiveIds(tracks_) :
                 id \notin LiveIds(tracks_')
                     <=> /\ id \notin MatchedIds(lastCall')
                         /\ TrackById(tracks_, id).consecutive_misses + 1 > config_.max_age
          /\ \A k \in (Len(created) + 1)..Len(created') : created'[k] \in LiveIds(tracks_')
          /\ \A id \in LiveIds(tracks_') :
                 TrackById(tracks_', id).consecutive_misses <= config_.max_age
      ]_vars

\* max_age 1: after an update() one track is live with one miss, next to a
\* track the call matched
WitnessMissedOnceStillLive ==
    /\ lastOp = "update"
    /\ config_.max_age = 1
    /\ \E i \in 1..Len(tracks_) : \E j \in 1..Len(tracks_) :
           /\ tracks_[i].consecutive_misses = 1
           /\ tracks_[j].consecutive_misses = 0
           /\ tracks_[j].track_id \in MatchedIds(lastCall)

\* the detection the last update() matched to the track with this id
MatchedDetection(call, id) ==
    LET i == CHOOSE k \in 1..Len(call.matches) : call.track_ids[call.matches[k][1]] = id
    IN  call.detections[call.matches[i][2]]

\* C26: every live track has age >= 1 and between 1 and 50 trajectory
\* points; a match appends the matched detection's center to the trajectory,
\* and when that would make 51 points the oldest point is dropped and the
\* others keep their order.
TrajectoryBounded ==
    /\ [](\A i \in 1..Len(tracks_) :
              /\ tracks_[i].age >= 1
              /\ Len(tracks_[i].trajectory) >= 1
              /\ Len(tracks_[i].trajectory) <= 50)
    /\ [][(nUpdates' = nUpdates + 1) =>
             \A id \in LiveIds(tracks_) \cap MatchedIds(lastCall') :
                 LET old == TrackById(tracks_, id).trajectory
                     center == MatchedDetection(lastCall', id).center
                 IN  /\ id \in LiveIds(tracks_')
                     /\ TrackById(tracks_', id).trajectory =
                            IF Len(old) = 50 THEN Tail(old) \o <<center>>
                            ELSE Append(old, center)
         ]_vars

\* a track matched in 52 frames: its trajectory holds the centers of frames
\* 3 to 52
WitnessOldestPointsEvicted ==
    \E i \in 1..Len(tracks_) :
        /\ tracks_[i].age = 52
        /\ Len(tracks_[i].trajectory) = 50
        /\ tracks_[i].trajectory[1] = PathDetection(3).center
        /\ tracks_[i].trajectory[50] = PathDetection(52).center

\* C27: a match sets the velocity to the matched detection's center minus
\* the last trajectory point before the call (the last matched center, not
\* the predicted one) and the acceleration to the new velocity minus the
\* velocity before the call, whether or not unmatched cycles lie in between.
VelocityFromLastMatchedCenter ==
    [][(nUpdates' = nUpdates + 1) =>
          \A id \in LiveIds(tracks_) \cap MatchedIds(lastCall') :
              LET old == TrackById(tracks_, id)
                  new == TrackById(tracks_', id)
                  prev == old.trajectory[Len(old.trajectory)]
                  center == MatchedDetection(lastCall', id).center
              IN  /\ new.velocity = <<center[1] - prev[1], center[2] - prev[2]>>
                  /\ new.acceleration = <<new.velocity[1] - old.velocity[1],
                                          new.velocity[2] - old.velocity[2]>>
      ]_vars

\* the long-lived track was unmatched in one frame and matched in the next:
\* its velocity spans the two frames (4, 0), 2 more than before, although
\* the predicted center was only 2 pixels away from the detection
WitnessMatchedAfterMiss ==
    /\ lastOp = "update"
    /\ \E i \in 1..Len(tracks_) :
           /\ tracks_[i].track_id = 1
           /\ tracks_[i].track_id \in MatchedIds(lastCall)
           /\ hist[1].everMissed
           /\ tracks_[i].velocity = <<4, 0>>
           /\ tracks_[i].acceleration = <<2, 0>>

\* C28: a track that has never been matched has direction 0; a match whose
\* new speed is <= 0.1 leaves the direction as it was before the call, and a
\* match whose new speed is > 0.1 sets it to atan2(vy, vx) in degrees.
DirectionKeptWhenSlow ==
    /\ [](\A i \in 1..Len(tracks_) : tracks_[i].age = 1 => tracks_[i].direction = 0)
    /\ [][(nUpdates' = nUpdates + 1) =>
             \A id \in LiveIds(tracks_) \cap MatchedIds(lastCall') :
                 LET old == TrackById(tracks_, id)
                     new == TrackById(tracks_', id)
                 IN  /\ new.speed = 10 * Norm(new.velocity)
                     /\ new.direction =
                            IF new.speed > 1
                            THEN Atan2Deg(new.velocity[2], new.velocity[1])
                            ELSE old.direction
         ]_vars

\* a track that moved to the left (direction 180) was matched at the same
\* place: speed 0, direction still 180
WitnessStoppedKeepsDirection ==
    /\ lastOp = "update"
    /\ \E i \in 1..Len(tracks_) :
           /\ tracks_[i].track_id \in MatchedIds(lastCall)
           /\ tracks_[i].velocity = <<0, 0>>
           /\ tracks_[i].speed = 0
           /\ tracks_[i].direction = 180

\* C35: in every tracker state the live tracks are listed by strictly
\* increasing track_id and every live id is at least 1 and below
\* next_track_id_; the matches of the last update() are listed by increasing
\* track id, the order in which the association let the tracks choose.
LiveSetOrderedById ==
    /\ \A i, j \in 1..Len(tracks_) : i < j => tracks_[i].track_id < tracks_[j].track_id
    /\ \A i \in 1..Len(tracks_) :
           tracks_[i].track_id >= 1 /\ tracks_[i].track_id < next_track_id_
    /\ \A i, j \in 1..Len(lastCall.matches) :
           i < j => lastCall.track_ids[lastCall.matches[i][1]]
                        < lastCall.track_ids[lastCall.matches[j][1]]

\* track 1 has expired; two younger tracks are live and were both matched in
\* the last update()
WitnessOrderKeptAfterExpiry ==
    /\ Len(tracks_) >= 2
    /\ tracks_[1].track_id >= 2
    /\ Len(lastCall.matches) = 2

\* C36: an update() in which a track that stays live is not matched leaves
\* its track_id, age, trajectory, velocity, acceleration, speed, direction,
\* is_confirmed, first_seen and last_updated as they were, adds one to
\* consecutive_misses, and changes nothing of the detection but the box
\* position and the center, and these only when the trajectory has at least
\* 2 points.
UnmatchedCycleKeepsMotionState ==
    [][(nUpdates' = nUpdates + 1) =>
          \A id \in (LiveIds(tracks_) \cap LiveIds(tracks_')) \ MatchedIds(lastCall') :
              LET old == TrackById(tracks_, id)
                  new == TrackById(tracks_', id)
              IN  /\ new.age = old.age
                  /\ new.trajectory = old.trajectory
                  /\ new.velocity = old.velocity
                  /\ new.acceleration = old.acceleration
                  /\ new.speed = old.speed
                  /\ new.direction = old.direction
                  /\ new.is_confirmed = old.is_confirmed
                  /\ new.first_seen = old.first_seen
                  /\ new.last_updated = old.last_updated
                  /\ new.consecutive_misses = old.consecutive_misses + 1
                  /\ new.detection.class_id = old.detection.class_id
                  /\ new.detection.bbox.width = old.detection.bbox.width
                  /\ new.detection.bbox.height = old.detection.bbox.height
                  /\ Len(old.trajectory) < 2 => new.detection = old.detection
      ]_vars

\* a track with two trajectory points went unmatched in the last update()
\* and is still live; its box was moved to the predicted position
WitnessUnmatchedBoxMoved ==
    /\ lastOp = "update"
    /\ \E i \in 1..Len(tracks_) :
           /\ tracks_[i].track_id \notin MatchedIds(lastCall)
           /\ Len(tracks_[i].trajectory) = 2
           /\ tracks_[i].consecutive_misses = 1
           /\ tracks_[i].detection.center # tracks_[i].trajectory[2]

\* C37: an update() in which a live track with at least 2 trajectory points
\* is not matched puts its center at the last trajectory point plus the
\* velocity; when the track was already unmatched in the update() before,
\* that is the center it had, so the prediction stays where it is for the
\* whole run of unmatched cycles.
PredictionFixedDuringMisses ==
    [][(nUpdates' = nUpdates + 1) =>
          \A id \in (LiveIds(tracks_) \cap LiveIds(tracks_')) \ MatchedIds(lastCall') :
              LET old == TrackById(tracks_, id)
                  new == TrackById(tracks_', id)
                  last == old.trajectory[Len(old.trajectory)]
              IN  Len(old.trajectory) >= 2 =>
                      /\ new.detection.center = <<last[1] + old.velocity[1],
                                                  last[2] + old.velocity[2]>>
                      /\ old.consecutive_misses >= 1 =>
                             new.detection.center = old.detection.center
      ]_vars

\* the object of the path was matched twice and then missing for three
\* frames: its center is one velocity step (2, 0) after its last matched one
WitnessThreeMissesOnePrediction ==
    \E i \in 1..Len(tracks_) :
        /\ tracks_[i].consecutive_misses = 3
        /\ Len(tracks_[i].trajectory) = 2
        /\ tracks_[i].velocity = <<2, 0>>
        /\ tracks_[i].detection.center = <<tracks_[i].trajectory[2][1] + 2,
                                           tracks_[i].trajectory[2][2]>>

----------------------------------------------------------------------------
(* Properties of the perception system *)

IsIncreasing(log) == \A i, j \in 1..Len(log) : i < j => log[i] < log[j]

\* C2 (as claimed): at no time are two processFrame invocations inside the
\* tracker's update() at once.
AtMostOneInUpdate ==
    \A v, w \in Workers : (pc[v] = "inUpdate" /\ pc[w] = "inUpdate") => v = w

\* C3 (as claimed): frames go through tracking in the order the video thread
\* delivered them, and the stored results and the result callbacks never go
\* back to an older frame.
FramesInDeliveryOrder ==
    /\ \A v, w \in Workers :
          (/\ local[v].frame > 0
           /\ local[v].frame < local[w].frame
           /\ pc[v] \in {"detect", "track", "inUpdate", "analyze"})
              => pc[w] \in {"detect", "track"}
    /\ IsIncreasing(updateLog)
    /\ IsIncreasing(storeLog)
    /\ IsIncreasing(callbackLog)

----------------------------------------------------------------------------
(* Properties of the behaviour analyzer *)

\* C10 (as claimed): in every result of analyze(), when none of the three
\* distance rules applies and the result's own time to collision is valid
\* (> 0) and below collision_risk_ttc, the risk level is High.
HighRiskWhenTtcBelowThreshold ==
    \A i \in 1..Len(behaviors) :
        LET b == behaviors[i]
        IN  (/\ ~RatLT(b.distance_to_vehicle, <<5, 1>>)
             /\ ~RatLT(b.distance_to_vehicle, <<analyzer_config_.high_risk_distance, 1>>)
             /\ ~RatLT(b.distance_to_vehicle, <<analyzer_config_.high_risk_distance * 2, 1>>)
             /\ RatGT(b.time_to_collision, <<0, 1>>)
             /\ RatLT(b.time_to_collision, <<analyzer_config_.collision_risk_ttc, 1>>))
                => b.risk_level = HIGH_RISK

\* C11: in every result of analyze(), a track whose box is higher than 199
\* has an estimated distance below 5 m, and a result whose distance is below
\* 5 m has risk level Critical, whatever the class, the behaviour label, the
\* time to collision, the vehicle speed and the configured thresholds are.
CriticalBelowFiveMetres ==
    \A i \in 1..Len(behaviors) :
        /\ analyze_input[i].detection.bbox.height > 199 =>
              RatLT(behaviors[i].distance_to_vehicle, <<5, 1>>)
        /\ RatLT(behaviors[i].distance_to_vehicle, <<5, 1>>) =>
              behaviors[i].risk_level = CRITICAL_RISK

\* an animal nearer than 5 m, with high_risk_distance below 5 m and a valid
\* time to collision, was rated Critical
WitnessCriticalOverridesTtc ==
    \E i \in 1..Len(behaviors) :
        /\ analyze_input[i].detection.class_id = "ANIMAL"
        /\ analyze_input[i].detection.bbox.height > 199
        /\ analyzer_config_.high_risk_distance < 5
        /\ RatGT(behaviors[i].time_to_collision, <<0, 1>>)
        /\ behaviors[i].risk_level = CRITICAL_RISK

\* a fraction with positive terms in lowest terms
RECURSIVE Gcd(_, _)
Gcd(a, b) == IF b = 0 THEN a ELSE Gcd(b, a % b)

RatReduce(a) == <<a[1] \div Gcd(a[1], a[2]), a[2] \div Gcd(a[1], a[2])>>

\* the approach speed of a track, in 1/900 m/s: vehicle speed / 3.6, minus
\* speed * 0.1 for directions in (-45, 45), plus speed * 0.1 for directions
\* above 135 or below -135
ApproachSpeed(obj, vehicle_speed_kmh) ==
    IF obj.direction > -45 /\ obj.direction < 45 THEN 25 * vehicle_speed_kmh - 9 * obj.speed
    ELSE IF obj.direction > 135 \/ obj.direction < -135
         THEN 25 * vehicle_speed_kmh + 9 * obj.speed
    ELSE 25 * vehicle_speed_kmh

\* C12: every analyze() step gives each track the time to collision -1
\* exactly when the track speed is <= 0.1, or the vehicle speed is <= 0.1, or
\* the approach speed is <= 0, whatever the distance is; otherwise the value
\* is distance / approach speed and strictly positive.
TtcSentinelExactly ==
    [][vehicle_speed_kmh_' = vehicle_speed_kmh_ =>
          \A i \in 1..Len(behaviors') :
              LET obj == analyze_input[i]
                  ttc == behaviors'[i].time_to_collision
                  distance == behaviors'[i].distance_to_vehicle
                  approach == ApproachSpeed(obj, vehicle_speed_kmh_)
              IN  IF obj.speed <= 1 \/ vehicle_speed_kmh_ <= 1 \/ approach <= 0
                  THEN ttc = <<-1, 1>>
                  ELSE /\ ttc[2] > 0
                       /\ ttc[1] > 0
                       /\ RatReduce(ttc) =
                             RatReduce(<<distance[1] * 900, distance[2] * approach>>)]_vars

\* a moving track got the sentinel because the vehicle at 2 km/h is slower
\* than the track moving away from it
WitnessSentinelByApproachSpeed ==
    \E i \in 1..Len(behaviors) :
        /\ behaviors[i].time_to_collision = <<-1, 1>>
        /\ analyze_input[i].speed > 1
        /\ vehicle_speed_kmh_ = 20
        /\ ApproachSpeed(analyze_input[i], vehicle_speed_kmh_) <= 0

\* C13: in every result of analyze() for a pedestrian, the label is Crossing
\* with confidence 0.7 when the trajectory has at least 3 points and its net
\* displacement has |dx| > 2 |dy| and |dx| > 20, whatever the speed is;
\* otherwise it is the label of the speed ladder.
CrossingOverridesSpeedLabel ==
    \A i \in 1..Len(behaviors) :
        LET obj == analyze_input[i]
            n == Len(obj.trajectory)
            dx == Abs(obj.trajectory[n][1] - obj.trajectory[1][1])
            dy == Abs(obj.trajectory[n][2] - obj.trajectory[1][2])
        IN  obj.detection.class_id = "PEDESTRIAN" =>
                IF n >= 3 /\ dx > 2 * dy /\ dx > 20
                THEN /\ behaviors[i].behavior = "PEDESTRIAN_CROSSING"
                     /\ behaviors[i].confidence = 7
                ELSE behaviors[i].behavior =
                        IF obj.speed < 5 THEN "PEDESTRIAN_STANDING"
                        ELSE IF obj.speed < analyzer_config_.pedestrian_running_threshold
                             THEN "PEDESTRIAN_WALKING"
                        ELSE "PEDESTRIAN_RUNNING"

\* a pedestrian at running speed with a displacement of (30, 5) over three
\* points was labelled Crossing
WitnessCrossingAtRunningSpeed ==
    \E i \in 1..Len(behaviors) :
        /\ analyze_input[i].detection.class_id = "PEDESTRIAN"
        /\ analyze_input[i].speed >= analyzer_config_.pedestrian_running_threshold
        /\ analyze_input[i].trajectory = <<<<50, 50>>, <<65, 52>>, <<80, 55>>>>
        /\ behaviors[i].behavior = "PEDESTRIAN_CROSSING"

\* the classes analyzeObject hands to analyzeNonMotorBehavior
NonMotorClasses == {"CYCLIST", "MOTORCYCLIST", "BICYCLE", "MOTORCYCLE", "TRICYCLE"}

\* the label of the speed ladder for a non-motor vehicle
NonMotorLadder(obj, cfg) ==
    IF obj.speed < 5 THEN "NON_MOTOR_STOPPED"
    ELSE IF obj.speed < cfg.non_motor_speeding_threshold THEN "NON_MOTOR_MOVING"
    ELSE "NON_MOTOR_SPEEDING"

\* the sudden-brake condition: norm(acceleration) > 5.0
SuddenBrakeCondition(obj) ==
    obj.acceleration[1] * obj.acceleration[1] + obj.acceleration[2] * obj.acceleration[2] > 25

\* the direction of the k-th step of the trajectory
StepDirection(obj, k) ==
    Atan2Deg(obj.trajectory[k + 1][2] - obj.trajectory[k][2],
             obj.trajectory[k + 1][1] - obj.trajectory[k][1])

\* the sudden-turn condition: the last direction sample and the one two
\* samples earlier differ by more than 45 degrees
SuddenTurnCondition(obj) ==
    LET samples == Len(obj.trajectory) - 1
    IN  /\ samples >= 3
        /\ Abs(StepDirection(obj, samples) - StepDirection(obj, samples - 2)) > 45

\* C29 as stated: a non-motor vehicle with norm(acceleration) > 5.0 and no
\* sudden turn is labelled SuddenBrake, whatever the length of its trajectory.
BrakeOverridesForEveryLength ==
    \A i \in 1..Len(behaviors) :
        LET obj == analyze_input[i]
        IN  (/\ obj.detection.class_id \in NonMotorClasses
             /\ SuddenBrakeCondition(obj)
             /\ ~SuddenTurnCondition(obj))
                => behaviors[i].behavior = "NON_MOTOR_SUDEN_BRAKE"

\* C29 amended: a non-motor vehicle with norm(acceleration) > 5.0, no sudden
\* turn and at least 3 trajectory points is labelled SuddenBrake; with fewer
\* than 3 points it keeps the label of the speed ladder.
BrakeOverridesFromThreePoints ==
    \A i \in 1..Len(behaviors) :
        LET obj == analyze_input[i]
        IN  (/\ obj.detection.class_id \in NonMotorClasses
             /\ SuddenBrakeCondition(obj)
             /\ ~SuddenTurnCondition(obj))
                => behaviors[i].behavior =
                       IF Len(obj.trajectory) >= 3 THEN "NON_MOTOR_SUDEN_BRAKE"
                       ELSE NonMotorLadder(obj, analyzer_config_)

\* the cyclist after its turn: three trajectory points, speed 6 (above the
\* speeding threshold 5), acceleration (-6, 6); labelled SuddenBrake
WitnessBrakeOverSpeeding ==
    /\ Len(behaviors) = 1
    /\ analyze_input[1].detection.class_id = "CYCLIST"
    /\ Len(analyze_input[1].trajectory) = 3
    /\ analyze_input[1].acceleration = <<-6, 6>>
    /\ analyze_input[1].speed = 60
    /\ behaviors[1].behavior = "NON_MOTOR_SUDEN_BRAKE"

\* C30: a non-motor vehicle for which both the sudden-brake condition and
\* the sudden-turn condition hold is labelled SuddenTurn.
TurnOverridesBrake ==
    \A i \in 1..Len(behaviors) :
        LET obj == analyze_input[i]
        IN  (/\ obj.detection.class_id \in NonMotorClasses
             /\ SuddenBrakeCondition(obj)
             /\ SuddenTurnCondition(obj))
                => behaviors[i].behavior = "NON_MOTOR_SUDEN_TURN"

\* the behaviours the last rule of the cascade rates Medium
MediumBehaviours ==
    {"PEDESTRIAN_RUNNING", "PEDESTRIAN_CROSSING", "NON_MOTOR_SPEEDING",
     "NON_MOTOR_SUDEN_BRAKE", "NON_MOTOR_SUDEN_TURN", "ANIMAL_ENTERING_ROAD"}

\* the level of the distance rule that fires for a result, "none" if none does
DistanceRuleLevel(b, cfg) ==
    IF RatLT(b.distance_to_vehicle, <<5, 1>>) THEN "critical"
    ELSE IF RatLT(b.distance_to_vehicle, <<cfg.high_risk_distance, 1>>) THEN "high"
    ELSE IF RatLT(b.distance_to_vehicle, <<cfg.high_risk_distance * 2, 1>>) THEN "medium"
    ELSE "none"

\* a TTC rule applies to the time to collision of a result
TtcRuleApplies(b, cfg) ==
    /\ RatGT(b.time_to_collision, <<0, 1>>)
    /\ RatLT(b.time_to_collision, <<cfg.collision_risk_ttc * 2, 1>>)

\* C31: in every result of analyze(), a distance rule that fires decides the
\* risk level (Critical, High, Medium) whatever the behaviour is; when no
\* distance rule fires and no TTC rule applies, the level is Medium for
\* Running, Crossing, Speeding, SuddenBrake, SuddenTurn and EnteringRoad and
\* Low for every other behaviour.
BehaviourRuleDecidesLast ==
    \A i \in 1..Len(behaviors) :
        LET b == behaviors[i]
            rule == DistanceRuleLevel(b, analyzer_config_)
        IN  /\ rule = "critical" => b.risk_level = CRITICAL_RISK
            /\ rule = "high" => b.risk_level = HIGH_RISK
            /\ rule = "medium" => b.risk_level = MEDIUM_RISK
            /\ (rule = "none" /\ ~TtcRuleApplies(b, analyzer_config_)) =>
                   b.risk_level = IF b.behavior \in MediumBehaviours THEN MEDIUM_RISK
                                  ELSE LOW_RISK

\* a running pedestrian 50 m away without a time to collision is rated Medium
\* by the behaviour rule
WitnessRunningFarAway ==
    /\ Len(behaviors) = 1
    /\ behaviors[1].behavior = "PEDESTRIAN_RUNNING"
    /\ behaviors[1].distance_to_vehicle = <<50, 1>>
    /\ behaviors[1].time_to_collision = <<-1, 1>>
    /\ behaviors[1].risk_level = MEDIUM_RISK

EnteringRoadIsHighOrCritical ==
    \A i \in 1..Len(behaviors) :
        behaviors[i].behavior = "ANIMAL_ENTERING_ROAD" =>
            /\ analyze_input[i].detection.class_id = "ANIMAL"
            /\ analyze_input[i].speed >= 5
            /\ RatLT(behaviors[i].distance_to_vehicle,
                     <<analyzer_config_.high_risk_distance, 1>>)
            /\ behaviors[i].risk_level \in {HIGH_RISK, CRITICAL_RISK}

\* an animal moving 5 m away (box height 199) with high_risk_distance 10 is
\* entering the road and rated High
WitnessAnimalEnteringRatedHigh ==
    /\ Len(behaviors) = 1
    /\ behaviors[1].behavior = "ANIMAL_ENTERING_ROAD"
    /\ analyze_input[1].detection.bbox.height = 199
    /\ analyzer_config_.high_risk_distance = 10
    /\ behaviors[1].risk_level = HIGH_RISK

\* C40: of two tracks analyzed in one call that differ in the height of
\* their boxes only, the one with the higher box has the smaller or the same
\* estimated distance and a risk level that is not lower.
RiskMonotoneInDistance ==
    \A i, j \in 1..Len(behaviors) :
        (/\ analyze_input[i].detection.bbox.height >= analyze_input[j].detection.bbox.height
         /\ [analyze_input[i] EXCEPT !.track_id = 0, !.detection.bbox.height = 0]
                = [analyze_input[j] EXCEPT !.track_id = 0, !.detection.bbox.height = 0])
            => /\ ~RatGT(behaviors[i].distance_to_vehicle, behaviors[j].distance_to_vehicle)
               /\ behaviors[i].risk_level >= behaviors[j].risk_level

\* two standing pedestrians, one below 5 m and rated Critical, the other
\* 50 m away and rated Low
WitnessNearCriticalFarLow ==
    /\ Len(behaviors) = 2
    /\ analyze_input[1].detection.bbox.height = 200
    /\ analyze_input[2].detection.bbox.height = 8
    /\ behaviors[1].behavior = "PEDESTRIAN_STANDING"
    /\ behaviors[1].risk_level = CRITICAL_RISK
    /\ behaviors[2].risk_level = LOW_RISK

----------------------------------------------------------------------------
(* Properties of the association step *)

\* the number of tracks and of detections of the association calls
NumTracks == Len(tracks_)
NumDetections == Len(assoc_detections)

\* the boxes of a track and of a detection of the calls
TrackBox(t) == tracks_[t].detection.bbox
DetectionBox(d) == assoc_detections[d].bbox

\* a box of positive width and height
PositiveBox(box) == box.width > 0 /\ box.height > 0

\* two boxes of positive size whose interiors do not meet: apart, or sharing
\* at most an edge or a corner
Apart(a, b) ==
    \/ a.x + a.width <= b.x
    \/ b.x + b.width <= a.x
    \/ a.y + a.height <= b.y
    \/ b.y + b.height <= a.y

\* C14: in every IOU matrix the entry of a track box A and a detection box B
\* is a fraction between 0 and 1, is 0 when A and B do not overlap (touching
\* edges included), is 1 when A = B has positive width and height, and equals
\* the entry of every track box B and detection box A (IOU is symmetric).
IouAlgebra ==
    \A t \in 1..Len(iou_matrix) : \A d \in 1..Len(iou_matrix[t]) :
        LET A == TrackBox(t)
            B == DetectionBox(d)
            v == iou_matrix[t][d]
        IN  /\ v[2] > 0 /\ 0 <= v[1] /\ v[1] <= v[2]
            /\ ((PositiveBox(A) /\ PositiveBox(B) /\ Apart(A, B)) => v[1] = 0)
            /\ ((A = B /\ PositiveBox(A)) => v[1] = v[2])
            /\ \A t2 \in 1..Len(iou_matrix) : \A d2 \in 1..Len(iou_matrix[t2]) :
                   (TrackBox(t2) = B /\ DetectionBox(d2) = A)
                       => RatReduce(iou_matrix[t2][d2]) = RatReduce(v)

\* a matrix holding IOU(A,B) and IOU(B,A) of two overlapping boxes of
\* different areas, IOU(A,A), and the IOU 0 of two boxes sharing an edge
WitnessIouBothOrders ==
    /\ Len(iou_matrix) = 2 /\ NumDetections = 2
    /\ \/ /\ TrackBox(1) = BoxLeft /\ TrackBox(2) = BoxInside
          /\ DetectionBox(1) = BoxLeft /\ DetectionBox(2) = BoxInside
          /\ iou_matrix[1][1] = <<64, 64>>
          /\ iou_matrix[1][2] = <<16, 64>> /\ iou_matrix[2][1] = <<16, 64>>
       \/ /\ TrackBox(1) = BoxLeft /\ TrackBox(2) = BoxTouching
          /\ DetectionBox(1) = BoxLeft /\ DetectionBox(2) = BoxTouching
          /\ iou_matrix[1][2] = <<0, 1>> /\ iou_matrix[2][1] = <<0, 1>>

\* a box without area: width <= 0 or height <= 0
Degenerate(box) == box.width <= 0 \/ box.height <= 0

\* C19: with iou_threshold >= 0, a detection whose box has width <= 0 or
\* height <= 0 has IOU 0 against every track box and stays unmatched in every
\* association call, and a track whose box is degenerate has IOU 0 against
\* every detection and is in no match.
DegenerateNeverMatched ==
    (config_.iou_threshold[1] >= 0) =>
        /\ \A t \in 1..Len(iou_matrix) : \A d \in 1..Len(iou_matrix[t]) :
               (Degenerate(TrackBox(t)) \/ Degenerate(DetectionBox(d)))
                   => iou_matrix[t][d][1] = 0
        /\ \A n \in 1..Len(assoc_runs) :
               LET run == assoc_runs[n]
               IN  /\ \A d \in 1..NumDetections :
                          Degenerate(DetectionBox(d))
                              => /\ d \in SeqToSet(run.unmatched_detections)
                                 /\ \A i \in 1..Len(run.matches) : run.matches[i][2] # d
                   /\ \A t \in 1..NumTracks :
                          Degenerate(TrackBox(t))
                              => \A i \in 1..Len(run.matches) : run.matches[i][1] # t

\* threshold 0: a zero-width track and a zero-width detection lying inside
\* BoxLeft are left out while the BoxLeft track takes the BoxLeft detection
WitnessDegenerateLeftOut ==
    /\ config_.iou_threshold = <<0, 1>>
    /\ NumTracks = 2 /\ NumDetections = 2
    /\ TrackBox(1) = BoxNoWidth /\ TrackBox(2) = BoxLeft
    /\ DetectionBox(1) = BoxNoWidth /\ DetectionBox(2) = BoxLeft
    /\ Len(assoc_runs) >= 1
    /\ assoc_runs[1].matches = <<<<2, 2>>>>
    /\ assoc_runs[1].unmatched_detections = <<1>>

\* C20: every call of associateDetections on the same ordered track list,
\* the same ordered detection list and the same threshold returns the same
\* matches and the same unmatched list.
AssociationDeterministic ==
    \A m \in 1..Len(assoc_runs) : \A n \in 1..Len(assoc_runs) :
        /\ assoc_runs[m].matches = assoc_runs[n].matches
        /\ assoc_runs[m].unmatched_detections = assoc_runs[n].unmatched_detections

\* two calls made on two tracks that both overlap the first detection: the
\* first track takes it in both calls, the second track takes nothing
WitnessRepeatedContestedCall ==
    /\ NumTracks = 2 /\ NumDetections = 2
    /\ TrackBox(1) = BoxMoved /\ TrackBox(2) = BoxLeft
    /\ DetectionBox(1) = BoxLeft /\ DetectionBox(2) = BoxFar
    /\ Len(assoc_runs) = 2
    /\ assoc_runs[1].matches = <<<<1, 1>>>>
    /\ assoc_runs[2].matches = <<<<1, 1>>>>
    /\ assoc_runs[2].unmatched_detections = <<2>>

\* the detection a call matched to track t, 0 when it matched none
MatchOf(run, t) ==
    LET hits == {i \in 1..Len(run.matches) : run.matches[i][1] = t}
    IN  IF hits = {} THEN 0 ELSE run.matches[CHOOSE i \in hits : TRUE][2]

\* the detections a call had given to the tracks before track t
TakenBefore(run, t) ==
    {run.matches[i][2] : i \in {k \in 1..Len(run.matches) : run.matches[k][1] < t}}

\* C24: in every association call the matches are listed in track order, and
\* every track t gets, among the detections not taken by an earlier track
\* whose IOU with t is strictly greater than iou_threshold, the one of highest
\* IOU, the lowest index among equals; when there is none (an IOU equal to
\* the threshold does not count) the track is unmatched.
GreedyAssociationRule ==
    \A n \in 1..Len(assoc_runs) :
        LET run == assoc_runs[n]
        IN  /\ \A i \in 1..Len(run.matches), j \in 1..Len(run.matches) :
                   i < j => run.matches[i][1] < run.matches[j][1]
            /\ \A t \in 1..NumTracks :
                   LET candidates ==
                           {d \in 1..NumDetections \ TakenBefore(run, t) :
                               RatGT(iou_matrix[t][d], config_.iou_threshold)}
                       m == MatchOf(run, t)
                   IN  IF candidates = {} THEN m = 0
                       ELSE /\ m \in candidates
                            /\ \A d \in candidates :
                                   /\ ~RatGT(iou_matrix[t][d], iou_matrix[t][m])
                                   /\ RatReduce(iou_matrix[t][d]) = RatReduce(iou_matrix[t][m])
                                          => m <= d

\* threshold 0.25: the BoxInside track, whose IOU with the BoxLeft detections
\* equals the threshold, is unmatched, and the BoxLeft track takes the first
\* of the two equal BoxLeft detections
WitnessThresholdAndTie ==
    /\ config_.iou_threshold = <<1, 4>>
    /\ NumTracks = 2 /\ NumDetections = 2
    /\ TrackBox(1) = BoxInside /\ TrackBox(2) = BoxLeft
    /\ DetectionBox(1) = BoxLeft /\ DetectionBox(2) = BoxLeft
    /\ Len(assoc_runs) >= 1
    /\ assoc_runs[1].matches = <<<<2, 1>>>>
    /\ assoc_runs[1].unmatched_detections = <<2>>

----------------------------------------------------------------------------
(* Properties of the LLM enhancer *)

\* C21: the list enhanceAnalysis returns has the length and order of its
\* input, every field of every element other than llm_analysis equals the
\* input's, and with enable = false the list is the input.
EnhancementKeepsRiskSemantics ==
    /\ Len(enhanced_results) = Len(basic_analysis)
    /\ \A i \in 1..Len(basic_analysis) :
           [enhanced_results[i] EXCEPT !.llm_analysis = basic_analysis[i].llm_analysis]
               = basic_analysis[i]
    /\ (~llm_config_.enable => enhanced_results = basic_analysis)

\* an enabled enhancer has written the high-risk text into the first of two
\* analyses and another text into the second
WitnessEnhancedTwoAnalyses ==
    /\ llm_config_.enable
    /\ Len(enhanced_results) = 2
    /\ basic_analysis[1].risk_level = HIGH_RISK
    /\ basic_analysis[2].risk_level # HIGH_RISK
    /\ enhanced_results[1].track_id = 1 /\ enhanced_results[2].track_id = 2
    /\ Len(enhanced_results[1].llm_analysis) = 5
    /\ Len(enhanced_results[2].llm_analysis) \in {1, 3}

----------------------------------------------------------------------------
(* Properties of the thread pool *)

\* C22: no task runs twice; every task submit() queued is, at every moment,
\* in the queue, held by one worker, or executed once (none is dropped); and
\* when stop() has returned the queue is empty and every queued task has been
\* executed exactly once.
StopWaitsForAllTasks ==
    /\ \A t \in 1..MaxTasks : executed[t] <= 1
    /\ \A t \in SeqToSet(submitted) :
           \/ t \in SeqToSet(tasks_) /\ t \notin Running /\ executed[t] = 0
           \/ t \notin SeqToSet(tasks_) /\ t \in Running /\ executed[t] = 0
           \/ t \notin SeqToSet(tasks_) /\ t \notin Running /\ executed[t] = 1
    /\ (stop_call.at = "returned") =>
           /\ tasks_ = <<>>
           /\ \A t \in SeqToSet(submitted) : executed[t] = 1

\* stop() was called with two tasks still queued or running and has
\* returned; a submit() made after it was refused
WitnessStopDrainedQueue ==
    /\ stop_call.at = "returned"
    /\ pendingAtStop >= 2
    /\ Len(submitted) >= 2
    /\ rejected # {}

----------------------------------------------------------------------------
(* Properties of opening the video source *)

\* C23: with wait_for_device at most max_retry_attempts attempts are made, no
\* attempt starts once the elapsed time has reached connection_timeout_sec,
\* a successful attempt is the last one and ends the call with success, and
\* a call whose attempts all fail returns false; without wait_for_device
\* exactly one attempt is made.
OpenAttemptsBounded ==
    LET n == Len(attempt_starts)
    IN  /\ video_config_.wait_for_device =>
               /\ n <= video_config_.max_retry_attempts
               /\ \A k \in 1..n :
                      attempt_starts[k].at < video_config_.connection_timeout_sec
        /\ \A k \in 1..n :
               attempt_starts[k].ok = "opened"
                   => k = n /\ video_pc = "done" /\ open_result = "true"
        /\ (video_pc = "done" /\ \A k \in 1..n : attempt_starts[k].ok = "failed")
               => open_result = "false"
        /\ (video_pc = "done" /\ ~video_config_.wait_for_device) => n = 1

----------------------------------------------------------------------------
(* Properties of the system lifecycle *)

\* the calling thread that takes the step
Stepping(c) == ctl'[c] # ctl[c]

\* the state a call of op whose guard read seen may set
MaySet(op, seen, new_state) ==
    CASE op = "start" -> seen \in {"STOPPED", "PAUSED"} /\ new_state \in {"RUNNING", "ERROR"}
      [] op = "pause" -> seen = "RUNNING" /\ new_state = "PAUSED"
      [] op = "resume" -> seen = "PAUSED" /\ new_state = "RUNNING"
      [] OTHER -> TRUE

\* what the start(), pause() and resume() calls that have returned did
GuardedCallsReturned ==
    \A c \in Callers :
        (ctl[c].at = "returned" /\ ctl[c].op = "start") =>
            /\ ctl[c].seen \in {"INITIALIZING", "RUNNING", "ERROR"} => ret[c] = "false"
            /\ ret[c] = "true" <=> ctl[c].success

\* C32: a start() call changes the state only when its guard read STOPPED or
\* PAUSED, to RUNNING, and to ERROR only after the video processor failed to
\* start; a start() call whose guard read INITIALIZING, RUNNING or ERROR
\* returns false; a pause() call changes the state only when its guard read
\* RUNNING, to PAUSED; a resume() call only when its guard read PAUSED, to
\* RUNNING; no other call of the three changes the state.
LifecycleGuards ==
    /\ []GuardedCallsReturned
    /\ [][\A c \in Callers :
             (Stepping(c) /\ state_' # state_) =>
                 /\ MaySet(ctl[c].op, ctl[c].seen, state_')
                 /\ (ctl[c].op = "start" /\ state_' = "ERROR") =>
                        ~video.opened /\ ~video.processing]_vars

\* the second thread called start() while initialize() ran and got false;
\* the control thread then started and paused the system
WitnessStartRefusedPauseDone ==
    /\ ctl[2].op = "start" /\ ctl[2].seen = "INITIALIZING" /\ ret[2] = "false"
    /\ ctl[1].op = "pause" /\ ctl[1].at = "returned" /\ ctl[1].seen = "RUNNING"
    /\ state_ = "PAUSED"

\* C34 (as claimed): under fair scheduling every stop() call returns, with
\* the state STOPPED, whatever the state it was called in and whatever the
\* pool workers are doing.
StopTerminates ==
    \A c \in Callers :
        (ctl[c].op = "stop" /\ ctl[c].at # "returned")
            ~> (ctl[c].op = "stop" /\ ctl[c].at = "returned" /\ state_ = "STOPPED")

\* C33 (as claimed): an updateConfig() call made while the system is RUNNING,
\* whose re-initialization of the modules succeeds, eventually returns true
\* with the state RUNNING.
UpdateConfigResumes ==
    \A c \in Callers :
        (/\ ctl[c].op = "updateConfig" /\ ctl[c].at # "returned"
         /\ ctl[c].seen = "RUNNING" /\ ctl[c].success)
            ~> (/\ ctl[c].op = "updateConfig" /\ ctl[c].at = "returned"
                /\ ret[c] = "true" /\ state_ = "RUNNING")

====
